---- MODULE Spec2Model ----
(***************************************************************************)
(* Model of the live external-state mirrors of liischte (lib crate):       *)
(*   - the audio mirror  (lib/src/pipewire/{mod,node,default}.rs): one     *)
(*     worker thread, three tokio broadcast channels of capacity 1, one    *)
(*     pipewire command channel;                                           *)
(*   - the bus-backed mirrors (lib/src/networkmanager.rs,                  *)
(*     lib/src/modemmanager.rs): one tokio task per stream, publishing     *)
(*     through a tokio mpsc channel of capacity 1.                         *)
(* The mirrors share no state, so a behaviour runs one of them; the        *)
(* variable scene, fixed by Init, says which, and with it the population   *)
(* of inputs the behaviour draws from:                                     *)
(*   "fanout"       the audio mirror with its listeners, few provider      *)
(*                  events;                                                *)
(*   "polling"      the sinks channel of the audio mirror with its         *)
(*                  listeners, one node;                                   *)
(*   "audio"        the audio worker and its commands, without listeners;  *)
(*   "connections"  NetworkManager::listen_active_connections;             *)
(*   "wireless"     NetworkManager::listen_wireless_strength;              *)
(*   "cellular"     NetworkManager::listen_cellular_strength;              *)
(*   "sessions"     a strength mirror whose selector moves between two     *)
(*                  identities that can be bound;                          *)
(*   "tracker"      listen_active_connections over one connection, with    *)
(*                  every kind of property notification, one at a time;    *)
(*   "primary"      NetworkManager::listen_primary_connection;             *)
(*   "routes"       the audio worker with a node on a device and a node    *)
(*                  without one, their commands, and a provider that       *)
(*                  echoes what it was sent;                               *)
(*   "reconcile"    listen_active_connections over three connections,      *)
(*                  with bindings that fail, one notification at a time;   *)
(*   "devices"      the audio worker with nodes on and off a device, with  *)
(*                  and without route, route events that are complete or   *)
(*                  not, and commands for names that are and are not       *)
(*                  tracked;                                               *)
(*   "module"       the network module (src/module/network.rs), which      *)
(*                  folds the messages of the primary connection and       *)
(*                  active connections streams into its fields.            *)
(***************************************************************************)
EXTENDS Integers, Sequences, FiniteSets, TLC

(* ---------------------------------------------------------------------- *)
(* Bounds of the model                                                     *)
(* ---------------------------------------------------------------------- *)
MaxEvents == 3       \* provider events and commands the audio worker processes
MaxListeners == 2    \* listeners created from one PipewireInstance
MaxQueue == 1        \* commands waiting in the pipewire command channel
MaxSends == 3        \* snapshots a bus-backed task hands to its mpsc channel
MaxRouteEvents == 5  \* provider events and commands processed in the scene "routes"
MaxDeviceEvents == 4 \* provider events and commands processed in the scene "devices"
MaxActive == 2       \* connections in a list of active connections sent to the module

(* Program constants *)
BcCapacity == 1      \* broadcast::channel(1)
MpscCapacity == 1    \* mpsc::channel(1)

Chans == {"sinks", "sources", "defaults"}
Listeners == 1..MaxListeners
ObjIds == {1, 2, 3, 4}

NoneU32 == -1        \* Option<u32>::None
NoStr == "<none>"    \* Option<&str>::None

VARIABLES
  scene,       \* which mirror this behaviour runs, and on which inputs
  \* ---- audio mirror ----
  bc,          \* [Chans -> broadcast channel shared state]
  lis,         \* [Listeners -> state of a stream returned by listen_*]
  instAlive,   \* the PipewireInstance has not been dropped
  pwThread,    \* "starting" | "running" | "exited"
  nodes,       \* NodeTracker.nodes: id -> NodeTrackerObject
  devices,     \* NodeTracker.devices: id -> indices (route -> index)
  defInner,    \* DefaultTracker.inner: id of the attached metadata, or NoneU32
  defState,    \* DefaultTracker.state
  actq,        \* queue of the pipewire command channel
  cmdResult,   \* the last send_command: its result, and what was the case then
  lastOp,      \* last operation sent to a provider proxy
  pwLog,       \* what the last worker step logged
  pwEvents,    \* number of events the worker has processed
  pwGraph,     \* ids of the objects that exist in the provider's graph
  \* ---- bus-backed mirrors ----
  callRes,     \* what the caller was given: the result of connnect, a handle
  nmPc,        \* position of the mirror's task
  nmLog,       \* what the last step of the task logged
  nmOp,        \* what the task last did with the objects of the provider
  nmHeld,      \* the bindings the task held while its last step was binding
  mp,          \* the mpsc channel between the task and the returned stream
  mst,         \* the returned stream: "none" | "open" | "ended" | "dropped"
  msent,       \* number of snapshots the task has put into the channel
  mrecv,       \* number of snapshots the stream has yielded
  trackers,    \* path -> TrackedActiveConnection (scan state, pending events)
               \* (a property stream of the bus keeps the latest change only)
  states,      \* path -> ActiveConnection
  changeQ,     \* pending items of change_stream
  ap,          \* the tracked access point or modem, with its strength stream
  apQ,         \* pending items of changed_stream
  read,        \* the flag read of the strength loop
  pending,     \* the strength value the task is about to send, if any
  \* ---- consumer of the bus-backed mirrors ----
  netModule    \* the fields of NewtorkModule that update assigns

audioVars == <<bc, lis, instAlive, pwThread, nodes, devices,
               defInner, defState, actq, cmdResult, lastOp, pwLog, pwEvents, pwGraph>>
nmVars == <<nmPc, nmLog, nmOp, nmHeld, mp, mst, msent, mrecv, trackers, states,
            changeQ, ap, apQ, read, pending>>

(* ---------------------------------------------------------------------- *)
(* tokio::sync::broadcast, as used by the audio mirror                     *)
(* ---------------------------------------------------------------------- *)
BcIdx(pos) == (pos % BcCapacity) + 1

\* broadcast::channel(BcCapacity): one receiver, the one start() keeps.
\* A slot holds the position and the value written last and rem, the number
\* of receivers that have not read it yet.
BcNew(v0) ==
  [tail |-> 0,
   buf |-> [i \in 1..BcCapacity |->
              [pos |-> (i - 1) - BcCapacity, val |-> v0, rem |-> 0]],
   rx |-> 1,
   closed |-> FALSE]

\* Sender::send succeeds iff there is a receiver
BcSendOk(ch) == ch.rx > 0

\* a faulty variant: a sender that keeps a value some receiver has not read yet
BcSendKeepUnread(ch, v) ==
  IF ch.rx = 0 \/ ch.buf[BcIdx(ch.tail)].rem > 0 THEN ch
  ELSE [ch EXCEPT !.buf[BcIdx(ch.tail)] = [pos |-> ch.tail, val |-> v, rem |-> ch.rx],
                  !.tail = @ + 1]

\* Sender::send: never waits; overwrites the slot of tail and advances tail
BcSend(ch, v) ==
  IF ch.rx = 0 THEN ch
  ELSE [ch EXCEPT !.buf[BcIdx(ch.tail)] = [pos |-> ch.tail, val |-> v, rem |-> ch.rx],
                  !.tail = @ + 1]

\* a faulty variant: a new receiver that starts at the oldest retained value
BcSubscribePosOldest(ch) == IF ch.tail >= BcCapacity THEN ch.tail - BcCapacity ELSE 0

\* Receiver::resubscribe: the new receiver starts at the current tail
BcSubscribePos(ch) == ch.tail

\* a faulty variant: a lagging receiver jumps past the retained values
BcLagPosSkip(ch) == ch.tail

\* Receiver::recv_ref: where a lagging receiver continues
BcLagPos(ch) == ch.tail - BcCapacity

\* a faulty variant: a receiver that waits where it has fallen behind
BcRecvNoCatchUp(ch, next) ==
  LET slot == ch.buf[BcIdx(next)] IN
  IF slot.pos = next
    THEN [kind |-> "value", next |-> next + 1, pos |-> slot.pos, val |-> slot.val]
  ELSE [kind |-> IF ch.closed THEN "closed" ELSE "empty",
        next |-> next, pos |-> -1, val |-> slot.val]

\* Receiver::try_recv for a receiver at position next
BcRecv(ch, next) ==
  LET slot == ch.buf[BcIdx(next)] IN
  IF slot.pos = next
    THEN [kind |-> "value", next |-> next + 1, pos |-> slot.pos, val |-> slot.val]
  ELSE IF slot.pos + BcCapacity = next
    THEN [kind |-> IF ch.closed THEN "closed" ELSE "empty",
          next |-> next, pos |-> -1, val |-> slot.val]
  ELSE LET n == BcLagPos(ch) IN
    IF n - next = 0
      THEN [kind |-> "value", next |-> next + 1, pos |-> slot.pos, val |-> slot.val]
      ELSE [kind |-> "lagged", next |-> n, pos |-> -1, val |-> slot.val]

\* a faulty variant: the first receiver to read a value takes it out of the slot
BcReadTake(ch, pos) ==
  [ch EXCEPT !.buf[BcIdx(pos)].pos = @ - BcCapacity, !.buf[BcIdx(pos)].rem = 0]

\* the channel after a receiver has read the value at pos (RecvGuard::drop):
\* the value stays for the other receivers, one reader less is awaited
BcRead(ch, pos) == [ch EXCEPT !.buf[BcIdx(pos)].rem = @ - 1]

\* Receiver::drop of a receiver at position next: one receiver less, and the
\* retained values it has not read are read off
BcDropReceiver(ch, next) ==
  [ch EXCEPT !.rx = @ - 1,
             !.buf = [i \in 1..BcCapacity |->
                        IF ch.buf[i].pos >= next /\ ch.buf[i].pos >= 0
                          THEN [ch.buf[i] EXCEPT !.rem = @ - 1]
                          ELSE ch.buf[i]]]

(* ---------------------------------------------------------------------- *)
(* Provider data: property dictionaries and typed parameter objects        *)
(* ---------------------------------------------------------------------- *)
\* DictRef::get
Get(props, k) == IF k \in DOMAIN props THEN props[k] ELSE NoStr

\* str::parse::<u32>; NoneU32 stands for Err
ParseU32(s) ==
  CASE s = "0" -> 0 [] s = "1" -> 1 [] s = "2" -> 2 [] s = "3" -> 3
    [] OTHER -> NoneU32

\* f32::powf(1/3) on a linear amplitude counted in 27ths; the result is
\* counted in thirds
Cbrt(v) == CHOOSE r \in 0..v : r * r * r <= v /\ (r + 1) * (r + 1) * (r + 1) > v

\* a property of a parameter object: its key, the type of its value, and the
\* value: v holds an Int, a Bool (0 or 1) or the elements of a Float array,
\* o holds the properties of an Object
PropInt(k, n) == [key |-> k, t |-> "Int", v |-> <<n>>, o |-> <<>>]
PropBool(k, b) == [key |-> k, t |-> "Bool", v |-> <<IF b THEN 1 ELSE 0>>, o |-> <<>>]
PropFloats(k, fs) == [key |-> k, t |-> "Floats", v |-> fs, o |-> <<>>]
PropObject(k, ps) == [key |-> k, t |-> "Object", v |-> <<>>, o |-> ps]
PropString(k, str) == [key |-> k, t |-> str, v |-> <<>>, o |-> <<>>]

\* a deserialized pod: kind is "err" (deserialize failed), "object", or
\* "other" (a non-object body)
PodObject(props) == [kind |-> "object", props |-> props]
PodErr == [kind |-> "err", props |-> <<>>]
PodOther == [kind |-> "other", props |-> <<>>]

(* ---------------------------------------------------------------------- *)
(* NodeState (node.rs)                                                     *)
(* ---------------------------------------------------------------------- *)
NodeStateNew(id) ==
  [id |-> id, name |-> "", description |-> "", mute |-> FALSE,
   volume |-> <<>>, route |-> NoneU32]

\* NodeState::update_props: the new state and whether anything changed
NodeStateUpdateProps(st, props) ==
  LET name == Get(props, "node.name")
      desc == Get(props, "node.description")
      rt == IF Get(props, "card.profile.device") = NoStr THEN NoneU32
            ELSE ParseU32(Get(props, "card.profile.device"))
      s1 == IF name # NoStr THEN [st EXCEPT !.name = name] ELSE st
      s2 == IF desc # NoStr THEN [s1 EXCEPT !.description = desc] ELSE s1
      s3 == IF rt # NoneU32 THEN [s2 EXCEPT !.route = rt] ELSE s2
  IN [state |-> s3,
      changed |-> \/ (name # NoStr /\ name # st.name)
                  \/ (desc # NoStr /\ desc # st.description)
                  \/ (rt # NoneU32 /\ rt # st.route)]

\* NodeState::update_params, property by property
RECURSIVE NodeStateUpdateParams(_, _)
NodeStateUpdateParams(st, props) ==
  IF props = <<>> THEN [state |-> st, changed |-> FALSE]
  ELSE
    LET p == Head(props)
        r == IF p.key = "channelVolumes" /\ p.t = "Floats"
               THEN LET vol == [i \in DOMAIN p.v |-> Cbrt(p.v[i])]
                    IN [state |-> [st EXCEPT !.volume = vol],
                        changed |-> vol # st.volume]
             ELSE IF p.key = "mute" /\ p.t = "Bool"
               THEN [state |-> [st EXCEPT !.mute = (p.v[1] = 1)],
                     changed |-> (p.v[1] = 1) # st.mute]
             ELSE [state |-> st, changed |-> FALSE]
        rest == NodeStateUpdateParams(r.state, Tail(props))
    IN [state |-> rest.state, changed |-> r.changed \/ rest.changed]

(* ---------------------------------------------------------------------- *)
(* DefaultState (default.rs)                                               *)
(* ---------------------------------------------------------------------- *)
DEFAULT_STATE_UNKNOWN == "unknown"

DefaultStateDefault ==
  [configured_sink |-> DEFAULT_STATE_UNKNOWN, sink |-> DEFAULT_STATE_UNKNOWN,
   configured_source |-> DEFAULT_STATE_UNKNOWN, source |-> DEFAULT_STATE_UNKNOWN]

\* serde_json::from_str::<DefaultNodeValue>: the name, or NoStr on a parse error
ParseDefaultNodeValue(s) ==
  CASE s = "{\"name\":\"a\"}" -> "a"
    [] s = "{\"name\":\"b\"}" -> "b"
    [] OTHER -> NoStr

\* serde_json::to_string(&DefaultNodeValue { name })
DefaultNodeValueJson(name) == "{\"name\":\"" \o name \o "\"}"

DefaultKeyField(key) ==
  CASE key = "default.configured.audio.sink" -> "configured_sink"
    [] key = "default.audio.sink" -> "sink"
    [] key = "default.configured.audio.source" -> "configured_source"
    [] key = "default.audio.source" -> "source"
    [] OTHER -> NoStr

\* a faulty variant: an update that takes a null key as the removal of all values
DefaultStateUpdateNullResets(st, key, value) ==
  IF key = NoStr THEN [state |-> DefaultStateDefault, ret |-> TRUE, warn |-> {}]
  ELSE IF DefaultKeyField(key) = NoStr
    THEN [state |-> st, ret |-> FALSE, warn |-> {"unrecognized key for default metadata"}]
  ELSE
    LET parsed == IF value = NoStr THEN NoStr ELSE ParseDefaultNodeValue(value)
        new == IF parsed = NoStr THEN DEFAULT_STATE_UNKNOWN ELSE parsed
    IN [state |-> [st EXCEPT ![DefaultKeyField(key)] = new],
        ret |-> TRUE,
        warn |-> IF value # NoStr /\ parsed = NoStr
                 THEN {"failed to parse value"} ELSE {}]
\* DefaultState::update: the new state, the returned bool, and the warning
DefaultStateUpdate(st, key, value) ==
  IF key = NoStr THEN [state |-> st, ret |-> FALSE, warn |-> {}]
  ELSE IF DefaultKeyField(key) = NoStr
    THEN [state |-> st, ret |-> FALSE, warn |-> {"unrecognized key for default metadata"}]
  ELSE
    LET parsed == IF value = NoStr THEN NoStr ELSE ParseDefaultNodeValue(value)
        new == IF parsed = NoStr THEN DEFAULT_STATE_UNKNOWN ELSE parsed
    IN [state |-> [st EXCEPT ![DefaultKeyField(key)] = new],
        ret |-> TRUE,
        warn |-> IF value # NoStr /\ parsed = NoStr
                 THEN {"failed to parse value"} ELSE {}]

(* ---------------------------------------------------------------------- *)
(* The worker's handlers, as functions of the worker state                 *)
(*   w = [thread, nodes, devices, defInner, defState, bc, lastOp, log]     *)
(* ---------------------------------------------------------------------- *)
NoOp == [to |-> "none", id |-> NoneU32, type |-> "", pod |-> <<>>]

\* a faulty variant: a publish that unwraps the result of the send, so that a send
\* without receivers ends the thread
SendUnwrap(w, c, v, msg) ==
  IF BcSendOk(w.bc[c])
    THEN [w EXCEPT !.bc[c] = BcSend(@, v)]
    ELSE [w EXCEPT !.thread = "exited"]

\* Sender::send(..).is_err() => warn!: a failed send is logged, nothing else
Send(w, c, v, msg) ==
  IF BcSendOk(w.bc[c])
    THEN [w EXCEPT !.bc[c] = BcSend(@, v)]
    ELSE [w EXCEPT !.log = @ \cup {msg}]

ClassChan(class) == IF class = "Source" THEN "sources" ELSE "sinks"

\* a faulty variant: an update that collects the nodes of both classes
NodeListAll(ns, class) == {ns[i].state : i \in DOMAIN ns}
\* the list NodeTracker::update collects; a HashMap has no order, so a set
NodeList(ns, class) == {ns[i].state : i \in {j \in DOMAIN ns : ns[j].class = class}}

\* NodeTracker::update
NodeTrackerUpdate(w, class) ==
  Send(w, ClassChan(class), NodeList(w.nodes, class),
       "failed to send node update to channel")

MapPut(m, k, v) == [i \in DOMAIN m \cup {k} |-> IF i = k THEN v ELSE m[i]]
MapDel(m, k) == [i \in DOMAIN m \ {k} |-> m[i]]

\* a faulty variant: an add_node that takes every class but Audio/Sink for a source
AddNodeAnyClass(w, id, props, bindOk) ==
  LET mc == Get(props, "media.class")
      dv == Get(props, "device.id")
      device == IF dv = NoStr THEN NoneU32 ELSE ParseU32(dv)
      class == IF mc = "Audio/Sink" THEN "Sink" ELSE "Source"
      st == NodeStateUpdateProps(NodeStateNew(id), props).state
      obj == [class |-> class, device |-> device, state |-> st]
  IN IF mc = NoStr THEN w
     ELSE IF ~bindOk THEN w
     ELSE NodeTrackerUpdate([w EXCEPT !.nodes = MapPut(@, id, obj)], class)
\* NodeTracker::add_node; bindOk is the result of the bind closure
AddNode(w, id, props, bindOk) ==
  LET mc == Get(props, "media.class")
      dv == Get(props, "device.id")
      device == IF dv = NoStr THEN NoneU32 ELSE ParseU32(dv)
      class == IF mc = "Audio/Sink" THEN "Sink" ELSE "Source"
      w1 == IF dv # NoStr /\ device = NoneU32
              THEN [w EXCEPT !.log = @ \cup {"node device.id was not an integer"}]
              ELSE w
      st == NodeStateUpdateProps(NodeStateNew(id), props).state
      obj == [class |-> class, device |-> device, state |-> st]
  IN IF mc \notin {"Audio/Sink", "Audio/Source"} THEN w
     ELSE IF ~bindOk THEN w1
     ELSE NodeTrackerUpdate([w1 EXCEPT !.nodes = MapPut(@, id, obj)], class)

\* NodeTracker::add_device
AddDevice(w, id) ==
  [w EXCEPT !.devices = MapPut(@, id, <<>>)]

\* NodeTracker::remove
NodeTrackerRemove(w, id) ==
  LET w1 == IF id \in DOMAIN w.nodes
              THEN NodeTrackerUpdate([w EXCEPT !.nodes = MapDel(@, id)],
                                     w.nodes[id].class)
              ELSE w
  IN [w1 EXCEPT !.devices = MapDel(@, id)]

\* a faulty variant: an update_props that publishes whether or not a value changed
UpdatePropsAlways(w, id, props) ==
  IF id \in DOMAIN w.nodes
    THEN LET r == NodeStateUpdateProps(w.nodes[id].state, props)
             w1 == [w EXCEPT !.nodes[id].state = r.state]
         IN NodeTrackerUpdate(w1, w.nodes[id].class)
    ELSE w

\* NodeTracker::update_props
UpdateProps(w, id, props) ==
  IF id \in DOMAIN w.nodes
    THEN LET r == NodeStateUpdateProps(w.nodes[id].state, props)
             w1 == [w EXCEPT !.nodes[id].state = r.state]
         IN IF r.changed THEN NodeTrackerUpdate(w1, w.nodes[id].class) ELSE w1
    ELSE [w EXCEPT !.log = @ \cup {"tried to update props for untracked node"}]

\* a faulty variant: an update_params_node that also takes the parameters
\* of a node on a device
UpdateParamsNodeAny(w, id, pod) ==
  IF id \notin DOMAIN w.nodes
    THEN [w EXCEPT !.log = @ \cup {"tried to update params for untracked node"}]
  ELSE IF pod.kind = "err"
    THEN [w EXCEPT !.log = @ \cup {"failed to deserialize params"}]
  ELSE IF pod.kind = "other"
    THEN [w EXCEPT !.log = @ \cup {"received non-object body for params"}]
  ELSE LET r == NodeStateUpdateParams(w.nodes[id].state, pod.props)
           w1 == [w EXCEPT !.nodes[id].state = r.state]
       IN IF r.changed THEN NodeTrackerUpdate(w1, w.nodes[id].class) ELSE w1

\* NodeTracker::update_params_node
UpdateParamsNode(w, id, pod) ==
  IF id \notin DOMAIN w.nodes
    THEN [w EXCEPT !.log = @ \cup {"tried to update params for untracked node"}]
  ELSE IF w.nodes[id].device # NoneU32 THEN w
  ELSE IF pod.kind = "err"
    THEN [w EXCEPT !.log = @ \cup {"failed to deserialize params"}]
  ELSE IF pod.kind = "other"
    THEN [w EXCEPT !.log = @ \cup {"received non-object body for params"}]
  ELSE LET r == NodeStateUpdateParams(w.nodes[id].state, pod.props)
           w1 == [w EXCEPT !.nodes[id].state = r.state]
       IN IF r.changed THEN NodeTrackerUpdate(w1, w.nodes[id].class) ELSE w1

\* the properties of an object with the given key and type, in order; the
\* loop of update_params_device keeps the last of them
PropsOf(props, key, t) ==
  SelectSeq(props, LAMBDA q : q.key = key /\ q.t = t)
LastOf(sq) == sq[Len(sq)]

\* a faulty variant: an update_params_device that stores the index of an
\* event without route props
UpdateParamsDeviceNoProps(w, id, pod, target) ==
  LET ps == IF pod.kind = "object" THEN pod.props ELSE <<>>
      route == PropsOf(ps, "route.device", "Int")
      index == PropsOf(ps, "route.index", "Int")
      params == PropsOf(ps, "route.props", "Object")
  IN IF route = <<>> \/ index = <<>>
       THEN [w EXCEPT !.log = @ \cup {"received incomplete device route param update"}]
     ELSE
       LET w1 == IF id \in DOMAIN w.devices
                   THEN [w EXCEPT !.devices[id] =
                           MapPut(@, LastOf(route).v[1], LastOf(index).v[1])]
                   ELSE [w EXCEPT !.log = @ \cup {"route index update for unknown device"}]
       IN IF target = NoneU32 \/ params = <<>> THEN w1
          ELSE LET r == NodeStateUpdateParams(w1.nodes[target].state, LastOf(params).o)
                   w2 == [w1 EXCEPT !.nodes[target].state = r.state]
               IN IF r.changed THEN NodeTrackerUpdate(w2, w1.nodes[target].class)
                  ELSE w2

\* NodeTracker::update_params_device; target is the node the find() returns
\* among those on this device and route (NoneU32 when there is none)
UpdateParamsDevice(w, id, pod, target) ==
  LET ps == IF pod.kind = "object" THEN pod.props ELSE <<>>
      route == PropsOf(ps, "route.device", "Int")
      index == PropsOf(ps, "route.index", "Int")
      params == PropsOf(ps, "route.props", "Object")
      w0 == IF pod.kind = "err"
              THEN [w EXCEPT !.log = @ \cup {"failed to deserialize params for device"}]
            ELSE IF pod.kind = "other"
              THEN [w EXCEPT !.log = @ \cup {"received non-object body for device params"}]
            ELSE w
  IN IF route = <<>> \/ index = <<>> \/ params = <<>>
       THEN [w0 EXCEPT !.log = @ \cup {"received incomplete device route param update"}]
     ELSE
       LET w1 == IF id \in DOMAIN w0.devices
                   THEN [w0 EXCEPT !.devices[id] =
                           MapPut(@, LastOf(route).v[1], LastOf(index).v[1])]
                   ELSE [w0 EXCEPT !.log = @ \cup {"route index update for unknown device"}]
       IN IF target = NoneU32 THEN w1
          ELSE LET r == NodeStateUpdateParams(w1.nodes[target].state, LastOf(params).o)
                   w2 == [w1 EXCEPT !.nodes[target].state = r.state]
               IN IF r.changed THEN NodeTrackerUpdate(w2, w1.nodes[target].class)
                  ELSE w2

\* the nodes find() may return in update_params_device
RouteTargets(ns, id, pod) ==
  LET ps == IF pod.kind = "object" THEN pod.props ELSE <<>>
      route == PropsOf(ps, "route.device", "Int")
      m == IF route = <<>> THEN {}
           ELSE {n \in DOMAIN ns :
                   ns[n].device = id /\ ns[n].state.route = LastOf(route).v[1]}
  IN IF m = {} THEN {NoneU32} ELSE m

\* the nodes the find() of NodeTracker::set may return for a name
SetTargets(ns, name) ==
  LET m == {n \in DOMAIN ns : ns[n].state.name = name}
  IN IF m = {} THEN {NoneU32} ELSE m

\* a faulty variant: a set that takes index 0 for a route without index
NodeTrackerSetDefaultIndex(w, name, object, target) ==
  IF target = NoneU32
    THEN [w EXCEPT !.log = @ \cup {"cannot set property, node is not tracked"}]
  ELSE
    LET node == w.nodes[target] IN
    IF node.device # NoneU32
      THEN IF node.state.route = NoneU32
             THEN [w EXCEPT !.log = @ \cup {"no route found for node"}]
           ELSE IF node.device \notin DOMAIN w.devices
             THEN [w EXCEPT !.log = @ \cup {"device was not tracked"}]
           ELSE IF node.state.route \notin DOMAIN w.devices[node.device]
             THEN [w EXCEPT !.lastOp =
                     [to |-> "device", id |-> node.device, type |-> "Route",
                      pod |-> <<PropInt("route.device", node.state.route),
                                PropInt("route.index", 0),
                                PropObject("route.props", object),
                                PropBool("route.save", TRUE)>>]]
           ELSE [w EXCEPT !.lastOp =
                   [to |-> "device", id |-> node.device, type |-> "Route",
                    pod |-> <<PropInt("route.device", node.state.route),
                              PropInt("route.index",
                                      w.devices[node.device][node.state.route]),
                              PropObject("route.props", object),
                              PropBool("route.save", TRUE)>>]]
      ELSE [w EXCEPT !.lastOp =
              [to |-> "node", id |-> target, type |-> "Props", pod |-> object]]
\* NodeTracker::set; target is the node find() returned (NoneU32: none)
NodeTrackerSet(w, name, object, target) ==
  IF target = NoneU32
    THEN [w EXCEPT !.log = @ \cup {"cannot set property, node is not tracked"}]
  ELSE
    LET node == w.nodes[target] IN
    IF node.device # NoneU32
      THEN IF node.state.route = NoneU32
             THEN [w EXCEPT !.log = @ \cup {"no route found for node"}]
           ELSE IF node.device \notin DOMAIN w.devices
             THEN [w EXCEPT !.log = @ \cup {"device was not tracked"}]
           ELSE IF node.state.route \notin DOMAIN w.devices[node.device]
             THEN [w EXCEPT !.log = @ \cup {"no index for route of device"}]
           ELSE [w EXCEPT !.lastOp =
                   [to |-> "device", id |-> node.device, type |-> "Route",
                    pod |-> <<PropInt("route.device", node.state.route),
                              PropInt("route.index",
                                      w.devices[node.device][node.state.route]),
                              PropObject("route.props", object),
                              PropBool("route.save", TRUE)>>]]
      ELSE [w EXCEPT !.lastOp =
              [to |-> "node", id |-> target, type |-> "Props", pod |-> object]]

\* a faulty variant: a cube without the clamp
CubeNoClamp(p) == p * p * p
\* f32::max(0).powi(3) on a perceptual value counted in thirds
Cube(p) == LET q == IF p < 0 THEN 0 ELSE p IN q * q * q

\* NodeTracker::set_volume
NodeTrackerSetVolume(w, name, volume, target) ==
  NodeTrackerSet(w, name,
    <<PropFloats("channelVolumes", [i \in DOMAIN volume |-> Cube(volume[i])])>>,
    target)

\* a faulty variant: the mute goes to the node itself, on a device or not
NodeTrackerSetMuteDirect(w, name, mute, target) ==
  IF target = NoneU32
    THEN [w EXCEPT !.log = @ \cup {"cannot set property, node is not tracked"}]
    ELSE [w EXCEPT !.lastOp = [to |-> "node", id |-> target, type |-> "Props",
                               pod |-> <<PropBool("mute", mute)>>]]

\* NodeTracker::set_mute
NodeTrackerSetMute(w, name, mute, target) ==
  NodeTrackerSet(w, name, <<PropBool("mute", mute)>>, target)

\* NodeTracker::trigger_update
NodeTrackerTriggerUpdate(w) ==
  NodeTrackerUpdate(NodeTrackerUpdate(w, "Sink"), "Source")

(* ---------------------------------------------------------------------- *)
(* DefaultTracker (default.rs)                                             *)
(* ---------------------------------------------------------------------- *)
\* DefaultTracker::attach
DefaultAttach(w, id) == [w EXCEPT !.defInner = id]

\* a faulty variant: a detach that clears the metadata object whatever id is removed
DefaultDetachAny(w, id) == [w EXCEPT !.defInner = NoneU32]
\* DefaultTracker::detach
DefaultDetach(w, id) ==
  IF w.defInner # NoneU32 /\ w.defInner = id
    THEN [w EXCEPT !.defInner = NoneU32] ELSE w

\* the property closure registered by DefaultTracker::attach
DefaultProperty(w, key, value) ==
  LET r == DefaultStateUpdate(w.defState, key, value)
      w1 == [w EXCEPT !.defState = r.state, !.log = @ \cup r.warn]
  IN IF r.ret
       THEN Send(w1, "defaults", r.state, "failed to send default update to channel")
       ELSE w1

\* DefaultTracker::set_default (through set_sink / set_source)
DefaultSetDefault(w, key, name) ==
  IF w.defInner # NoneU32
    THEN [w EXCEPT !.lastOp =
            [to |-> "metadata", id |-> w.defInner, type |-> "Spa:String:JSON",
             pod |-> <<PropString(key, DefaultNodeValueJson(name))>>]]
    ELSE [w EXCEPT !.log = @ \cup {"cannot set default device, metadata not attached"}]

\* a faulty variant: a trigger that publishes only when a metadata object is attached
DefaultTriggerUpdateAttached(w) ==
  IF w.defInner # NoneU32
    THEN Send(w, "defaults", w.defState, "failed to send triggered update to channel")
    ELSE w

\* DefaultTracker::trigger_update
DefaultTriggerUpdate(w) ==
  Send(w, "defaults", w.defState, "failed to send triggered update to channel")

(* ---------------------------------------------------------------------- *)
(* PipewireThread (mod.rs)                                                 *)
(* ---------------------------------------------------------------------- *)
\* PipewireThread::global_remove
GlobalRemove(w, id) == NodeTrackerRemove(DefaultDetach(w, id), id)

\* PipewireThread::global; g = [id, type, props, bindOk], props = <<>> for None
Global(w, g) ==
  IF g.hasProps = FALSE THEN w
  ELSE IF g.type = "Metadata"
    THEN IF Get(g.props, "metadata.name") = "default"
           THEN IF g.bindOk THEN DefaultAttach(w, g.id)
                ELSE [w EXCEPT !.log = @ \cup {"failed to bind to metadata object"}]
           ELSE w
  ELSE IF g.type = "Node" THEN AddNode(w, g.id, g.props, g.bindOk)
  ELSE IF g.type = "Device"
    THEN IF g.bindOk THEN AddDevice(w, g.id) ELSE w
  ELSE w

\* PipewireThread::action; target resolves the find() of NodeTracker::set
ThreadAction(w, a, target) ==
  CASE a.kind = "DefaultSink" ->
         DefaultSetDefault(w, "default.configured.audio.sink", a.name)
    [] a.kind = "DefaultSource" ->
         DefaultSetDefault(w, "default.configured.audio.source", a.name)
    [] a.kind = "NodeVolume" -> NodeTrackerSetVolume(w, a.name, a.volume, target)
    [] a.kind = "NodeMute" -> NodeTrackerSetMute(w, a.name, a.mute, target)
    [] a.kind = "Update" -> NodeTrackerTriggerUpdate(DefaultTriggerUpdate(w))

ActionTargets(ns, a) ==
  IF a.kind \in {"NodeVolume", "NodeMute"} THEN SetTargets(ns, a.name) ELSE {NoneU32}

(* ---------------------------------------------------------------------- *)
(* The audio mirror as a state machine                                     *)
(* ---------------------------------------------------------------------- *)
AudioScenes == {"fanout", "polling", "audio", "routes", "devices"}

LisNone == [st |-> "none", ch |-> "sinks", next |-> 0, created |-> 0,
            lastPos |-> -1]

\* the inputs the provider and the clients are given in this model
D2(k1, v1, k2, v2) == (k1 :> v1) @@ (k2 :> v2)
NodePropsInputs ==
  {D2("media.class", "Audio/Sink", "node.name", "a"),
   D2("media.class", "Audio/Source", "node.name", "b"),
   D2("media.class", "Audio/Sink", "node.name", "a")
     @@ D2("device.id", "3", "card.profile.device", "1"),
   D2("media.class", "Video/Source", "node.name", "v"),
   ("node.name" :> "a")}
GlobalObj(i, t, h, p, b) ==
  [id |-> i, type |-> t, hasProps |-> h, props |-> p, bindOk |-> b]
GlobalInputs ==
  IF scene = "routes"
    THEN {GlobalObj(1, "Node", TRUE, D2("media.class", "Audio/Source", "node.name", "b"), TRUE),
          GlobalObj(2, "Node", TRUE, D2("media.class", "Audio/Sink", "node.name", "a")
                      @@ D2("device.id", "3", "card.profile.device", "1"), TRUE),
          GlobalObj(3, "Device", TRUE, ("device.name" :> "d"), TRUE)}
  ELSE IF scene = "devices"
    THEN {GlobalObj(1, "Node", TRUE, D2("media.class", "Audio/Sink", "node.name", "a"), TRUE),
          GlobalObj(2, "Node", TRUE, D2("media.class", "Audio/Sink", "node.name", "a")
                      @@ D2("device.id", "3", "card.profile.device", "1"), TRUE),
          GlobalObj(4, "Node", TRUE, D2("media.class", "Audio/Source", "node.name", "c")
                      @@ ("device.id" :> "3"), TRUE),
          GlobalObj(3, "Device", TRUE, ("device.name" :> "d"), TRUE)}
  ELSE IF scene = "polling"
    THEN {GlobalObj(1, "Node", TRUE, D2("media.class", "Audio/Sink", "node.name", "a"), TRUE)}
  ELSE IF scene = "fanout"
    THEN {GlobalObj(1, "Node", TRUE, D2("media.class", "Audio/Sink", "node.name", "a"), TRUE),
          GlobalObj(1, "Node", TRUE, D2("media.class", "Audio/Source", "node.name", "b"), TRUE),
          GlobalObj(4, "Metadata", TRUE, ("metadata.name" :> "default"), TRUE)}
    ELSE {GlobalObj(1, "Node", TRUE, p, TRUE) : p \in NodePropsInputs}
         \cup
         {GlobalObj(2, "Node", TRUE, D2("media.class", "Audio/Sink", "node.name", "a")
                      @@ D2("device.id", "3", "card.profile.device", "1"), TRUE),
          GlobalObj(1, "Node", TRUE, D2("media.class", "Audio/Sink", "node.name", "a"), FALSE),
          GlobalObj(1, "Node", FALSE, ("node.name" :> "a"), TRUE),
          GlobalObj(3, "Device", TRUE, ("device.name" :> "d"), TRUE),
          GlobalObj(4, "Metadata", TRUE, ("metadata.name" :> "default"), TRUE),
          GlobalObj(4, "Metadata", TRUE, ("metadata.name" :> "default"), FALSE),
          GlobalObj(4, "Metadata", TRUE, ("metadata.name" :> "settings"), TRUE),
          GlobalObj(4, "Link", TRUE, ("link.id" :> "1"), TRUE)}
RemoveInputs == ObjIds
InfoInputs ==
  IF scene = "fanout" THEN {("node.name" :> "b")}
  ELSE {("node.name" :> "a"), ("node.name" :> "b")}
ParamInputs ==
  IF scene \in {"fanout", "polling"} THEN {"mute"}
  ELSE IF scene = "routes" THEN {"echo"}
  ELSE IF scene = "devices" THEN {"mute", "volume", "err"}
  ELSE {"mute", "unmute", "volume", "err", "other"}
ParamPod(d) ==
  CASE d = "mute" -> PodObject(<<PropBool("mute", TRUE)>>)
    [] d = "unmute" -> PodObject(<<PropBool("mute", FALSE)>>)
    [] d = "volume" -> PodObject(<<PropFloats("channelVolumes", <<8>>)>>)
    [] d = "err" -> PodErr
    [] d = "other" -> PodOther
    \* the provider reports the object it was last sent
    [] d = "echo" -> PodObject(lastOp.pod)
RouteInputs ==
  IF scene = "fanout" THEN {"incomplete"}
  ELSE IF scene = "routes" THEN {"route", "echo"}
  ELSE IF scene = "devices" THEN {"route", "reindex", "second", "incomplete", "err"}
  ELSE {"route", "incomplete", "err"}
RoutePod(d) ==
  CASE d = "route" ->
         PodObject(<<PropInt("route.device", 1), PropInt("route.index", 0),
                     PropObject("route.props", <<PropBool("mute", TRUE)>>)>>)
    [] d = "incomplete" ->
         PodObject(<<PropInt("route.device", 1), PropInt("route.index", 0)>>)
    [] d = "err" -> PodErr
    [] d = "echo" -> PodObject(lastOp.pod)
    [] d = "reindex" ->
         PodObject(<<PropInt("route.device", 1), PropInt("route.index", 5),
                     PropObject("route.props", <<PropBool("mute", FALSE)>>)>>)
    [] d = "second" ->
         PodObject(<<PropInt("route.device", 2), PropInt("route.index", 1),
                     PropObject("route.props", <<PropBool("mute", TRUE)>>)>>)
MetaKeys ==
  IF scene = "fanout" THEN {"default.audio.sink"}
  ELSE {"default.audio.sink", "default.configured.audio.source", "bogus", NoStr}
MetaValues ==
  IF scene = "fanout" THEN {"{\"name\":\"a\"}"}
  ELSE {"{\"name\":\"a\"}", "{\"name\":\"b\"}", "garbage", NoStr}
Cmd(k, n, v, m) == [kind |-> k, name |-> n, volume |-> v, mute |-> m]
CmdInputs ==
  IF scene = "fanout" THEN {Cmd("Update", "", <<>>, FALSE)}
  ELSE IF scene = "routes"
    THEN {Cmd("NodeMute", "a", <<>>, TRUE), Cmd("NodeMute", "b", <<>>, TRUE),
          Cmd("NodeVolume", "a", <<2, 3>>, FALSE), Cmd("NodeVolume", "b", <<-1, 1>>, FALSE)}
  ELSE IF scene = "devices"
    THEN {Cmd("NodeMute", "a", <<>>, TRUE), Cmd("NodeMute", "c", <<>>, TRUE),
          Cmd("NodeMute", "zz", <<>>, TRUE), Cmd("NodeVolume", "a", <<2>>, FALSE)}
  ELSE {Cmd("Update", "", <<>>, FALSE), Cmd("NodeMute", "a", <<>>, TRUE),
        Cmd("NodeVolume", "a", <<2>>, FALSE), Cmd("DefaultSink", "a", <<>>, FALSE),
        Cmd("DefaultSource", "b", <<>>, FALSE)}

\* the state after PipewireInstance::start has returned
InitAudio ==
  /\ bc = [c \in Chans |-> BcNew(IF c = "defaults" THEN DefaultStateDefault ELSE {})]
  /\ lis = [l \in Listeners |-> LisNone]
  /\ instAlive = TRUE
  /\ pwThread = "starting"
  /\ nodes = <<>>
  /\ devices = <<>>
  /\ defInner = NoneU32
  /\ defState = DefaultStateDefault
  /\ actq = <<>>
  /\ cmdResult = [res |-> "none", rxAlive |-> TRUE, queued |-> FALSE]
  /\ lastOp = NoOp
  /\ pwLog = {}
  /\ pwEvents = 0
  /\ pwGraph = {}

W == [thread |-> pwThread, nodes |-> nodes, devices |-> devices, defInner |-> defInner,
      defState |-> defState, bc |-> bc, lastOp |-> lastOp, log |-> {}]

\* one callback of the worker's run loop, with its effect on the worker state
WorkerStep(w) ==
  /\ scene \in AudioScenes
  /\ pwThread = "running"
  /\ pwEvents < (CASE scene = "routes" -> MaxRouteEvents
                    [] scene = "devices" -> MaxDeviceEvents
                    [] OTHER -> MaxEvents)
  /\ pwEvents' = pwEvents + 1
  /\ pwThread' = w.thread
  /\ nodes' = w.nodes
  /\ devices' = w.devices
  /\ defInner' = w.defInner
  /\ defState' = w.defState
  /\ bc' = w.bc
  /\ lastOp' = w.lastOp
  /\ pwLog' = w.log
  /\ UNCHANGED <<callRes, nmVars>>
  /\ UNCHANGED <<scene, netModule, lis, instAlive, cmdResult>>

\* PipewireThread::run up to the main loop: any step of the setup may fail,
\* which ends the thread and drops the three senders and the command receiver
PwRunSetup ==
  /\ scene \in AudioScenes
  /\ pwThread = "starting"
  /\ \E ok \in BOOLEAN :
       IF ok THEN /\ pwThread' = "running"
                  /\ UNCHANGED <<bc, pwLog>>
       ELSE /\ pwThread' = "exited"
            /\ bc' = [c \in Chans |-> [bc[c] EXCEPT !.closed = TRUE]]
            /\ pwLog' = {"failed to run pipewire thread"}
  /\ UNCHANGED <<callRes, nmVars>>
  /\ UNCHANGED <<scene, netModule, lis, instAlive, nodes, devices, defInner, defState, actq,
                 cmdResult, lastOp, pwEvents, pwGraph>>

\* the registry announces an object that has appeared in the graph
PwGlobal ==
  /\ \E g \in GlobalInputs :
       /\ g.id \notin pwGraph
       /\ pwGraph' = pwGraph \cup {g.id}
       /\ WorkerStep(Global(W, g))
  /\ UNCHANGED actq

\* the registry announces that an object has left the graph
PwGlobalRemove ==
  /\ \E id \in RemoveInputs :
       /\ id \in pwGraph
       /\ pwGraph' = pwGraph \ {id}
       /\ WorkerStep(GlobalRemove(W, id))
  /\ UNCHANGED actq

\* the info closure of a node listener; it lives while the node is tracked
PwNodeInfo ==
  /\ \E id \in DOMAIN nodes, props \in InfoInputs : WorkerStep(UpdateProps(W, id, props))
  /\ UNCHANGED <<actq, pwGraph>>

\* the param closure of a node listener
PwNodeParam ==
  /\ \E id \in DOMAIN nodes, d \in ParamInputs :
       WorkerStep(UpdateParamsNode(W, id, ParamPod(d)))
  /\ UNCHANGED <<actq, pwGraph>>

\* the param closure of a device listener
PwDeviceParam ==
  /\ \E id \in DOMAIN devices, d \in RouteInputs :
       \E target \in RouteTargets(nodes, id, RoutePod(d)) :
         WorkerStep(UpdateParamsDevice(W, id, RoutePod(d), target))
  /\ UNCHANGED <<actq, pwGraph>>

\* the property closure of the metadata listener
PwMetadataProperty ==
  /\ defInner # NoneU32
  /\ \E key \in MetaKeys, value \in MetaValues : WorkerStep(DefaultProperty(W, key, value))
  /\ UNCHANGED <<actq, pwGraph>>

\* the callback attached to the command receiver
PwAction ==
  /\ actq # <<>>
  /\ \E target \in ActionTargets(nodes, Head(actq)) :
       WorkerStep(ThreadAction(W, Head(actq), target))
  /\ actq' = Tail(actq)
  /\ UNCHANGED pwGraph

\* pipewire::channel::Sender::send: takes the lock of the queue shared with
\* the receiver, signals the pipe if the queue was empty, and pushes. The
\* queue and both ends of the pipe belong to the shared channel state, which
\* lives as long as any end, so a send finds them also after the receiver
\* was dropped; it fails only on a poisoned lock or a failed write, which no
\* step of this program causes.
PwSenderSend(q, cmd, rxAlive) == [ok |-> TRUE, queue |-> Append(q, cmd)]

\* PipewireInstance::send_command, behind set_volume, set_mute,
\* set_default_sink, set_default_source and trigger_update
SendCommand ==
  /\ scene \in AudioScenes
  /\ instAlive
  /\ Len(actq) < MaxQueue
  /\ \E a \in CmdInputs :
       LET r == PwSenderSend(actq, a, pwThread # "exited") IN
       /\ actq' = r.queue
       /\ cmdResult' = [res |-> IF r.ok THEN "Ok" ELSE "Err",
                        rxAlive |-> pwThread # "exited",
                        queued |-> r.queue # actq]
  /\ UNCHANGED <<callRes, nmVars>>
  /\ UNCHANGED <<scene, netModule, bc, lis, pwThread, instAlive, nodes, devices, defInner,
                 defState, lastOp, pwLog, pwEvents, pwGraph>>

\* listen_sinks / listen_sources / listen_defaults: resubscribe, wrapped in a
\* BroadcastStream. Listeners are created in the order of their numbers, and
\* the listeners of one behaviour watch one channel (the channels share
\* nothing).
Listen(l, c) ==
  /\ scene \in {"fanout", "polling"}
  /\ instAlive
  /\ lis[l].st = "none"
  /\ \A k \in Listeners : k < l => lis[k].st # "none"
  /\ \A k \in Listeners : lis[k].st # "none" => lis[k].ch = c
  /\ lis' = [lis EXCEPT ![l] = [LisNone EXCEPT !.st = "live", !.ch = c,
                                  !.next = BcSubscribePos(bc[c]),
                                  !.created = bc[c].tail]]
  /\ bc' = [bc EXCEPT ![c].rx = @ + 1]
  /\ UNCHANGED <<callRes, nmVars>>
  /\ UNCHANGED <<scene, netModule, instAlive, pwThread, nodes, devices, defInner, defState,
                 actq, cmdResult, lastOp, pwLog, pwEvents, pwGraph>>

\* one poll of a listener's stream that does not return Pending: the
\* BroadcastStream yields a value, or a Lagged error that the filter_map logs
\* and drops, or ends because the channel is closed
Poll(l) ==
  /\ scene \in AudioScenes
  /\ lis[l].st = "live"
  /\ LET r == BcRecv(bc[lis[l].ch], lis[l].next) IN
     /\ r.kind # "empty"
     /\ lis' = [lis EXCEPT ![l] =
          CASE r.kind = "value" ->
                 [@ EXCEPT !.next = r.next, !.lastPos = r.pos]
            [] r.kind = "lagged" -> [@ EXCEPT !.next = r.next]
            [] r.kind = "closed" -> [@ EXCEPT !.st = "ended"]]
     /\ bc' = IF r.kind = "value"
                THEN [bc EXCEPT ![lis[l].ch] = BcRead(@, r.pos)] ELSE bc
  /\ UNCHANGED <<callRes, nmVars>>
  /\ UNCHANGED <<scene, netModule, instAlive, pwThread, nodes, devices, defInner, defState,
                 actq, cmdResult, lastOp, pwLog, pwEvents, pwGraph>>

\* the consumer drops a stream, and with it the broadcast receiver
DropListener(l) ==
  /\ scene \in AudioScenes
  /\ lis[l].st \in {"live", "ended"}
  /\ lis' = [lis EXCEPT ![l] = [LisNone EXCEPT !.st = "dropped", !.ch = lis[l].ch]]
  /\ bc' = [bc EXCEPT ![lis[l].ch] = BcDropReceiver(@, lis[l].next)]
  /\ UNCHANGED <<callRes, nmVars>>
  /\ UNCHANGED <<scene, netModule, instAlive, pwThread, nodes, devices, defInner, defState,
                 actq, cmdResult, lastOp, pwLog, pwEvents, pwGraph>>

\* the PipewireInstance is dropped: its three receivers and its command sender
DropInstance ==
  /\ scene \in AudioScenes
  /\ instAlive
  /\ instAlive' = FALSE
  /\ bc' = [c \in Chans |-> BcDropReceiver(bc[c], 0)]
  /\ UNCHANGED <<callRes, nmVars>>
  /\ UNCHANGED <<scene, netModule, lis, pwThread, nodes, devices, defInner, defState,
                 actq, cmdResult, lastOp, pwLog, pwEvents, pwGraph>>

PollSome == \E l \in Listeners : Poll(l)
ListenSome == \E l \in Listeners, c \in Chans : Listen(l, c)
ListenSinks == \E l \in Listeners : Listen(l, "sinks")
DropListenerSome == \E l \in Listeners : DropListener(l)

(* ---------------------------------------------------------------------- *)
(* tokio::sync::mpsc, as used by the bus-backed mirrors                    *)
(* ---------------------------------------------------------------------- *)
MpscNew == [buf |-> <<>>, rx |-> TRUE, tx |-> TRUE]

\* a faulty variant: a sender that finds room in a full buffer
MpscReadyOverflow(ch) == IF ~ch.rx THEN "err" ELSE "ok"
\* what Sender::send(v).await finds: the receiver gone, room, or a full buffer
\* on which it waits
MpscReady(ch) ==
  IF ~ch.rx THEN "err"
  ELSE IF Len(ch.buf) < MpscCapacity THEN "ok" ELSE "wait"

\* the send completes: the value takes the free place of the buffer
MpscSend(ch, v) == [ch EXCEPT !.buf = Append(@, v)]

\* Receiver::poll_recv
MpscRecv(ch) ==
  IF ch.buf # <<>> THEN [kind |-> "value", val |-> <<Head(ch.buf)>>,
                         ch |-> [ch EXCEPT !.buf = Tail(@)]]
  ELSE IF ~ch.tx THEN [kind |-> "closed", val |-> <<>>, ch |-> ch]
  ELSE [kind |-> "empty", val |-> <<>>, ch |-> ch]

\* the receiver is dropped: the channel closes and what it holds is dropped
MpscDropReceiver(ch) == [ch EXCEPT !.rx = FALSE, !.buf = <<>>]
\* the only sender is dropped
MpscDropSender(ch) == [ch EXCEPT !.tx = FALSE]

(* ---------------------------------------------------------------------- *)
(* networkmanager.rs: active connections                                   *)
(* ---------------------------------------------------------------------- *)
BusScenes == {"connections", "wireless", "cellular"}
StrengthScenes == {"wireless", "cellular"}
\* the scenes of a strength task
SessionScenes == StrengthScenes \cup {"sessions"}
\* the scenes of a stream of the bus
TaskScenes == BusScenes \cup {"sessions", "primary", "tracker", "reconcile"}
\* the scenes of the active connections task
ConnectionScenes == {"connections", "tracker", "reconcile"}
Paths ==
  CASE scene = "tracker" -> {"/ac/1"}
    [] scene = "reconcile" -> {"/ac/1", "/ac/2", "/ac/3"}
    [] OTHER -> {"/ac/1", "/ac/2"}

\* a faulty variant: a parse that counts the states from zero
ActiveConnectionStateParseZeroBased(num) ==
  CASE num = 0 -> "Activating"
    [] num = 1 -> "Activated"
    [] num = 2 -> "Deactivating"
    [] num = 3 -> "Deactivated"
    [] OTHER -> "Unknown"

\* ActiveConnectionState::parse
ActiveConnectionStateParse(num) ==
  CASE num = 1 -> "Activating"
    [] num = 2 -> "Activated"
    [] num = 3 -> "Deactivating"
    [] num = 4 -> "Deactivated"
    [] OTHER -> "Unknown"

ActiveConnectionKindParse(string) ==
  CASE string = "802-3-ethernet" -> [k |-> "Wired", s |-> ""]
    [] string = "802-11-wireless" -> [k |-> "Wireless", s |-> ""]
    [] string = "gsm" -> [k |-> "Cellular", s |-> ""]
    [] OTHER -> [k |-> "Unknown", s |-> string]

First(devs) == IF devs = <<>> THEN NoStr ELSE Head(devs)

\* TrackedActiveConnection::track on the property reads r of the new proxy;
\* a failed read is NoStr / NoneU32 / ok = FALSE
Track(path, r) ==
  [ok |-> r.bind /\ r.id # NoStr /\ r.type # NoStr /\ r.state # NoneU32 /\ r.devok,
   initial |-> [path |-> path, name |-> r.id,
                kind |-> ActiveConnectionKindParse(r.type),
                state |-> ActiveConnectionStateParse(r.state),
                device |-> First(r.devices)]]

\* an item of a tracker's stream before the scan: the changed property
Event(t, s, n) == [t |-> t, s |-> s, n |-> n]

\* a faulty variant: the value of every notification counts as read
ReadableAlways(e) == TRUE
\* a notification of a property stream before its filter_map: n is NoneU32
\* when val.get() is an Err
Readable(e) == e.n # NoneU32

\* a faulty variant: a closure whose state arm also forgets the device
ScanEventForgetsDevice(state, e) ==
  CASE e.t = "Name" -> [state EXCEPT !.name = e.s]
    [] e.t = "Kind" -> [state EXCEPT !.kind = ActiveConnectionKindParse(e.s)]
    [] e.t = "State" -> [state EXCEPT !.state = ActiveConnectionStateParse(e.n),
                                      !.device = NoStr]
    [] e.t = "Device" -> [state EXCEPT !.device = e.s]

\* the scan_owning closure of track
ScanEvent(state, e) ==
  CASE e.t = "Name" -> [state EXCEPT !.name = e.s]
    [] e.t = "Kind" -> [state EXCEPT !.kind = ActiveConnectionKindParse(e.s)]
    [] e.t = "State" -> [state EXCEPT !.state = ActiveConnectionStateParse(e.n)]
    [] e.t = "Device" -> [state EXCEPT !.device = e.s]

\* a faulty variant: only the connections that are being activated are collected
ValuesActivating(st) == {st[p] : p \in {q \in DOMAIN st : st[q].state = "Activating"}}
\* states.values().cloned().collect()
Values(st) == {st[p] : p \in DOMAIN st}

\* a faulty variant: a retain that keeps what it should remove
RetainOthers(f, keep) == [p \in (DOMAIN f) \ keep |-> f[p]]
\* HashMap::retain(|a, _| paths.contains(a))
Retain(f, keep) == [p \in (DOMAIN f) \cap keep |-> f[p]]

\* a faulty variant: a loop that inserts what track returned, failed or not
TrackAllInsertsFailed(ts, st, new, reads) ==
  LET ok == {p \in new : Track(p, reads[p]).ok} IN
  [trackers |-> [p \in (DOMAIN ts) \cup new |->
                   IF p \in new THEN [scan |-> Track(p, reads[p]).initial, ev |-> {}]
                   ELSE ts[p]],
   states |-> [p \in (DOMAIN st) \cup new |->
                 IF p \in new THEN Track(p, reads[p]).initial ELSE st[p]],
   ok |-> ok,
   failed |-> ok # new]
\* a faulty variant: a loop that starts from empty tables
TrackAllFresh(ts, st, new, reads) ==
  LET ok == {p \in new : Track(p, reads[p]).ok} IN
  [trackers |-> [p \in ok |-> [scan |-> Track(p, reads[p]).initial, ev |-> {}]],
   states |-> [p \in ok |-> Track(p, reads[p]).initial],
   ok |-> ok,
   failed |-> ok # new]
\* a faulty variant: a loop that inserts the tracker and not its state
TrackAllTrackersOnly(ts, st, new, reads) ==
  LET ok == {p \in new : Track(p, reads[p]).ok} IN
  [trackers |-> [p \in (DOMAIN ts) \cup ok |->
                   IF p \in ok THEN [scan |-> Track(p, reads[p]).initial, ev |-> {}]
                   ELSE ts[p]],
   states |-> st,
   ok |-> ok,
   failed |-> ok # new]
\* the loop over paths that tracks each and inserts those that could be tracked
TrackAll(ts, st, new, reads) ==
  LET ok == {p \in new : Track(p, reads[p]).ok} IN
  [trackers |-> [p \in (DOMAIN ts) \cup ok |->
                   IF p \in ok THEN [scan |-> Track(p, reads[p]).initial, ev |-> {}]
                   ELSE ts[p]],
   states |-> [p \in (DOMAIN st) \cup ok |->
                 IF p \in ok THEN Track(p, reads[p]).initial ELSE st[p]],
   ok |-> ok,
   failed |-> ok # new]

\* a faulty variant: a connnect that does not look at the result of the proxy
ConnnectNoProxyCheck(r) == IF r = "no bus" THEN "Err" ELSE "Ok"
\* NetworkManager::connnect on the outcome r of the two bus calls
Connnect(r) == IF r = "ok" THEN "Ok" ELSE "Err"

\* .stream_context(..).unwrap_or_default() on the first enumeration
InitialPaths(r) == IF r.ok THEN r.paths ELSE {}

(* inputs *)
ConnectInputs == {"ok", "no bus", "no proxy"}
EnumInputs == {[ok |-> FALSE, paths |-> {}]} \cup {[ok |-> TRUE, paths |-> S] : S \in SUBSET Paths}
TrackReads == IF scene = "reconcile" THEN {"fails", "wifi", "unbound"} ELSE {"fails", "wifi"}
TrackRead(d) ==
  CASE d = "wifi" ->
         [bind |-> TRUE, id |-> "home", type |-> "802-11-wireless", state |-> 1,
          devok |-> TRUE, devices |-> <<"/dev/1">>]
    [] d = "unbound" ->
         [bind |-> FALSE, id |-> NoStr, type |-> NoStr, state |-> NoneU32,
          devok |-> FALSE, devices |-> <<>>]
    [] OTHER ->
         [bind |-> TRUE, id |-> "home", type |-> NoStr, state |-> 1,
          devok |-> TRUE, devices |-> <<>>]
StateCodes == 0 .. 5
EventInputs ==
  IF scene = "tracker"
    THEN {Event("Name", "work", 0), Event("Kind", "gsm", 0), Event("Device", NoStr, 0)}
         \cup {Event("State", "", c) : c \in StateCodes}
         \cup {Event(t, "", NoneU32) : t \in {"Name", "Kind", "State", "Device"}}
    ELSE {Event("State", "", 2)}

\* what a step of a task did with the objects of the provider: the paths it
\* was given, those it tried to bind, those whose binding it let go, and
\* those it could not bind
BusOp(what, arg, binds, unbinds, failed) ==
  [what |-> what, arg |-> arg, binds |-> binds, unbinds |-> unbinds, failed |-> failed]
NoBusOp == BusOp("none", {}, {}, {}, {})

CallNone == [connect |-> "none", cause |-> "none", handle |-> "none"]

(* ---------------------------------------------------------------------- *)
(* NewtorkModule (src/module/network.rs)                                   *)
(* ---------------------------------------------------------------------- *)
\* Option<ActiveConnection>::None
NoneConnection ==
  [path |-> NoStr, name |-> NoStr, kind |-> [k |-> "Unknown", s |-> ""],
   state |-> "Unknown", device |-> NoStr]

\* NewtorkModule::new, after the connect; strengths in percent
NewtorkModuleNew ==
  [active |-> <<>>, primary |-> NoneConnection, primary_path |-> NoStr,
   wireless_strength |-> 0, cellular_strength |-> 0]

\* NetworkMessage; path is NoStr for PrimaryConnection(None)
NetworkMessage(kind, path, active, strength) ==
  [kind |-> kind, path |-> path, active |-> active, strength |-> strength]

\* active.iter().find(|con| con.path == *primary).cloned()
RECURSIVE IterFind(_, _)
IterFind(active, path) ==
  IF active = <<>> THEN NoneConnection
  ELSE IF Head(active).path = path THEN Head(active)
  ELSE IterFind(Tail(active), path)

\* NewtorkModule::update
NewtorkModuleUpdate(m, message) ==
  LET m1 == CASE message.kind = "PrimaryConnection" ->
                   [m EXCEPT !.primary_path = message.path,
                             !.primary = IF message.path # NoStr
                                           THEN IterFind(m.active, message.path)
                                           ELSE NoneConnection]
              [] message.kind = "ActiveConnections" ->
                   [m EXCEPT !.active = message.active]
              [] message.kind = "WirelessStrength" ->
                   [m EXCEPT !.wireless_strength = message.strength]
              [] message.kind = "CellularStrength" ->
                   [m EXCEPT !.cellular_strength = message.strength]
  IN IF m1.primary = NoneConnection /\ m1.primary_path # NoStr
       THEN [m1 EXCEPT !.primary = IterFind(m1.active, m1.primary_path)]
       ELSE m1

\* the bus-backed mirrors before connnect was called
InitBus ==
  /\ callRes = CallNone
  /\ nmPc = "new"
  /\ nmLog = {}
  /\ nmOp = NoBusOp
  /\ nmHeld = {}
  /\ mp = MpscNew
  /\ mst = "none"
  /\ msent = 0
  /\ mrecv = 0
  /\ trackers = <<>>
  /\ states = <<>>
  /\ changeQ = <<>>
  /\ ap = [path |-> NoStr, sig |-> <<>>]
  /\ apQ = <<>>
  /\ read = FALSE
  /\ pending = <<>>
  /\ netModule = NewtorkModuleNew

\* what the bus-backed variables are while a behaviour runs the audio mirror
IdleBus ==
  /\ callRes = [connect |-> "none", cause |-> "none", handle |-> "instance"]
  /\ nmPc = "none"
  /\ nmLog = {}
  /\ nmOp = NoBusOp
  /\ nmHeld = {}
  /\ mp = MpscNew
  /\ mst = "none"
  /\ msent = 0
  /\ mrecv = 0
  /\ trackers = <<>>
  /\ states = <<>>
  /\ changeQ = <<>>
  /\ ap = [path |-> NoStr, sig |-> <<>>]
  /\ apQ = <<>>
  /\ read = FALSE
  /\ pending = <<>>
  /\ netModule = NewtorkModuleNew

\* NetworkManager::connnect
NmConnect ==
  /\ scene \in TaskScenes
  /\ nmPc = "new"
  /\ \E r \in ConnectInputs :
       /\ callRes' = [callRes EXCEPT !.connect = Connnect(r), !.cause = r]
       /\ nmPc' = IF Connnect(r) = "Ok" THEN "connected" ELSE "unconnected"
  /\ UNCHANGED <<nmHeld, nmOp, scene, netModule, audioVars, nmLog, mp, mst, msent, mrecv, trackers,
                 states, changeQ, ap, apQ, read, pending>>

\* listen_active_connections / listen_wireless_strength /
\* listen_cellular_strength: creates the channel, spawns the task and returns
\* the stream
NmListen ==
  /\ scene \in TaskScenes
  /\ nmPc = "connected"
  /\ callRes' = [callRes EXCEPT !.handle = "stream"]
  /\ nmPc' = "init"
  /\ mp' = MpscNew
  /\ mst' = "open"
  /\ UNCHANGED <<nmHeld, nmOp, scene, netModule, audioVars, nmLog, msent, mrecv, trackers,
                 states, changeQ, ap, apQ, read, pending>>

\* the tx.send(..).await of a task, on what it sends: the task returns when
\* the stream was dropped, and waits while the buffer is full
\* a faulty variant: a task that unwraps the result of the send
TaskSendUnwrap(v) ==
  /\ MpscReady(mp) = "err" \/ (MpscReady(mp) = "ok" /\ msent < MaxSends)
  /\ IF MpscReady(mp) = "err"
       THEN /\ nmPc' = "panicked"
            /\ mp' = MpscDropSender(mp)
            /\ nmLog' = {}
            /\ UNCHANGED msent
       ELSE /\ nmPc' = "select"
            /\ mp' = MpscSend(mp, v)
            /\ msent' = msent + 1
            /\ nmLog' = {}

TaskSend(v) ==
  /\ MpscReady(mp) = "err" \/ (MpscReady(mp) = "ok" /\ msent < MaxSends)
  /\ IF MpscReady(mp) = "err"
       THEN /\ nmPc' = "done"
            /\ mp' = MpscDropSender(mp)
            /\ nmLog' = {"stream was dropped"}
            /\ UNCHANGED msent
       ELSE /\ nmPc' = "select"
            /\ mp' = MpscSend(mp, v)
            /\ msent' = msent + 1
            /\ nmLog' = {}

\* the task of listen_active_connections up to its loop
AcInit ==
  /\ scene \in ConnectionScenes
  /\ nmPc = "init"
  /\ \E r \in EnumInputs : \E reads \in [InitialPaths(r) -> TrackReads] :
       LET t == TrackAll(<<>>, <<>>, InitialPaths(r),
                         [p \in InitialPaths(r) |-> TrackRead(reads[p])]) IN
       /\ trackers' = t.trackers
       /\ states' = t.states
       /\ nmOp' = BusOp("enumerate", InitialPaths(r), InitialPaths(r), {},
                        InitialPaths(r) \ t.ok)
       /\ nmHeld' = {}
       /\ nmLog' = (IF r.ok THEN {} ELSE {"failed to read active connections"})
                   \cup (IF t.failed THEN {"failed to track initial active connection"}
                         ELSE {})
  /\ nmPc' = "send"
  /\ UNCHANGED <<scene, netModule, audioVars, callRes, mp, mst, msent, mrecv,
                 changeQ, ap, apQ, read, pending>>

\* top of the loop: publish the collection of states
AcSend ==
  /\ scene \in ConnectionScenes
  /\ nmPc = "send"
  /\ TaskSend(Values(states))
  /\ UNCHANGED <<nmHeld, nmOp, scene, netModule, audioVars, callRes, mst, mrecv, trackers, states,
                 changeQ, ap, apQ, read, pending>>

\* a faulty variant: a branch that adds the new trackers before it removes the
\* unneeded ones
AcChangeBindFirst ==
  /\ scene \in ConnectionScenes
  /\ nmPc = "select"
  /\ changeQ # <<>>
  /\ LET paths == Head(changeQ)
         new == paths \ DOMAIN trackers
     IN \E reads \in [new -> TrackReads] :
          LET t == TrackAll(trackers, states, new,
                            [p \in new |-> TrackRead(reads[p])]) IN
          /\ trackers' = Retain(t.trackers, paths)
          /\ states' = Retain(t.states, paths)
          /\ nmOp' = BusOp(IF nmOp.what \in {"reconcile", "reconcile again"}
                                /\ nmOp.arg = paths
                              THEN "reconcile again" ELSE "reconcile",
                           paths, new, (DOMAIN trackers) \ paths, new \ t.ok)
          /\ nmHeld' = DOMAIN trackers
          /\ nmLog' = IF t.failed THEN {"failed to track new active connection"}
                      ELSE {}
  /\ changeQ' = Tail(changeQ)
  /\ nmPc' = "send"
  /\ UNCHANGED <<scene, netModule, audioVars, callRes, mp, mst, msent, mrecv,
                 ap, apQ, read, pending>>
\* a faulty variant: a branch that cleans the trackers and leaves the states
AcChangeKeepStates ==
  /\ scene \in ConnectionScenes
  /\ nmPc = "select"
  /\ changeQ # <<>>
  /\ LET paths == Head(changeQ)
         new == paths \ DOMAIN trackers
     IN \E reads \in [new -> TrackReads] :
          LET t == TrackAll(Retain(trackers, paths), states, new,
                            [p \in new |-> TrackRead(reads[p])]) IN
          /\ trackers' = t.trackers
          /\ states' = t.states
          /\ nmOp' = BusOp(IF nmOp.what \in {"reconcile", "reconcile again"}
                                /\ nmOp.arg = paths
                              THEN "reconcile again" ELSE "reconcile",
                           paths, new, (DOMAIN trackers) \ paths, new \ t.ok)
          /\ nmHeld' = DOMAIN Retain(trackers, paths)
          /\ nmLog' = IF t.failed THEN {"failed to track new active connection"}
                      ELSE {}
  /\ changeQ' = Tail(changeQ)
  /\ nmPc' = "send"
  /\ UNCHANGED <<scene, netModule, audioVars, callRes, mp, mst, msent, mrecv,
                 ap, apQ, read, pending>>
\* select, first branch: the set of active connections has changed
AcChange ==
  /\ scene \in ConnectionScenes
  /\ nmPc = "select"
  /\ changeQ # <<>>
  /\ LET paths == Head(changeQ)
         new == paths \ DOMAIN trackers
     IN \E reads \in [new -> TrackReads] :
          LET t == TrackAll(Retain(trackers, paths), Retain(states, paths), new,
                            [p \in new |-> TrackRead(reads[p])]) IN
          /\ trackers' = t.trackers
          /\ states' = t.states
          /\ nmOp' = BusOp(IF nmOp.what \in {"reconcile", "reconcile again"}
                                /\ nmOp.arg = paths
                              THEN "reconcile again" ELSE "reconcile",
                           paths, new, (DOMAIN trackers) \ paths, new \ t.ok)
          /\ nmHeld' = DOMAIN Retain(trackers, paths)
          /\ nmLog' = IF t.failed THEN {"failed to track new active connection"}
                      ELSE {}
  /\ changeQ' = Tail(changeQ)
  /\ nmPc' = "send"
  /\ UNCHANGED <<scene, netModule, audioVars, callRes, mp, mst, msent, mrecv,
                 ap, apQ, read, pending>>

\* a faulty variant: a select that may take its second branch while the first
\* is ready
AcMemberUnbiased ==
  /\ scene \in ConnectionScenes
  /\ nmPc = "select"
  /\ \E p \in DOMAIN trackers : \E e \in {o \in trackers[p].ev : Readable(o)} :
       LET state == ScanEvent(trackers[p].scan, e) IN
          /\ trackers' = [trackers EXCEPT ![p] = [scan |-> state, ev |-> @.ev \ {e}]]
          /\ states' = [q \in (DOMAIN states) \cup {state.path} |->
                          IF q = state.path THEN state ELSE states[q]]
  /\ nmPc' = "send"
  /\ nmLog' = {}
  /\ UNCHANGED <<nmHeld, nmOp, scene, netModule, audioVars, callRes, mp, mst, msent, mrecv,
                 changeQ, ap, apQ, read, pending>>
\* select, second branch: a tracker's stream yields the state after an event
AcMember ==
  /\ scene \in ConnectionScenes
  /\ nmPc = "select"
  /\ changeQ = <<>>
  /\ \E p \in DOMAIN trackers : \E e \in {o \in trackers[p].ev : Readable(o)} :
       LET state == ScanEvent(trackers[p].scan, e) IN
          /\ trackers' = [trackers EXCEPT ![p] = [scan |-> state, ev |-> @.ev \ {e}]]
          /\ states' = [q \in (DOMAIN states) \cup {state.path} |->
                          IF q = state.path THEN state ELSE states[q]]
  /\ nmPc' = "send"
  /\ nmLog' = {}
  /\ UNCHANGED <<nmHeld, nmOp, scene, netModule, audioVars, callRes, mp, mst, msent, mrecv,
                 changeQ, ap, apQ, read, pending>>

\* select, second branch: a property stream of a tracker drops a notification
\* it cannot read, and the select keeps waiting
AcUnreadable ==
  /\ scene \in ConnectionScenes
  /\ nmPc = "select"
  /\ changeQ = <<>>
  /\ \E p \in DOMAIN trackers : \E e \in {o \in trackers[p].ev : ~Readable(o)} :
       /\ trackers' = [trackers EXCEPT ![p].ev = @ \ {e}]
       /\ nmOp' = BusOp("read", {p}, {}, {}, {p})
  /\ UNCHANGED <<nmHeld, scene, netModule, audioVars, callRes, nmPc, nmLog, mp, mst, msent, mrecv,
                 states, changeQ, ap, apQ, read, pending>>

\* select, second branch when no connection is tracked: select_all over no
\* stream ends at once, and the loop continues
AcNoStream ==
  /\ scene \in ConnectionScenes
  /\ nmPc = "select"
  /\ changeQ = <<>>
  /\ DOMAIN trackers = {}
  /\ nmPc' = "send"
  /\ nmLog' = {}
  /\ UNCHANGED <<nmHeld, nmOp, scene, netModule, audioVars, callRes, mp, mst, msent, mrecv, trackers,
                 states, changeQ, ap, apQ, read, pending>>

\* the provider changes its set of active connections; a property stream of
\* the bus keeps no more than the latest change
EnvActiveConnections ==
  /\ scene \in ConnectionScenes
  /\ nmPc \in {"send", "select"}
  /\ \E paths \in SUBSET Paths : changeQ' = <<paths>>
  /\ UNCHANGED <<nmHeld, nmOp, scene, netModule, audioVars, callRes, nmPc, nmLog, mp, mst, msent, mrecv,
                 trackers, states, ap, apQ, read, pending>>

\* the provider changes a property of a tracked connection
EnvConnectionProperty ==
  /\ scene \in ConnectionScenes
  /\ nmPc \in {"send", "select"}
  /\ \E p \in DOMAIN trackers, e \in EventInputs :
       /\ scene = "tracker" => trackers[p].ev = {}
       /\ scene = "reconcile" => \A q \in DOMAIN trackers : trackers[q].ev = {}
       /\ trackers' = [trackers EXCEPT ![p].ev = {o \in @ : o.t # e.t} \cup {e}]
  /\ UNCHANGED <<nmHeld, nmOp, scene, netModule, audioVars, callRes, nmPc, nmLog, mp, mst, msent, mrecv,
                 states, changeQ, ap, apQ, read, pending>>

(* ---------------------------------------------------------------------- *)
(* networkmanager.rs / modemmanager.rs: signal strength                    *)
(* ---------------------------------------------------------------------- *)
NoAp == [path |-> NoStr, sig |-> <<>>]

\* convert_strength: the f64 as the fraction <<numerator, denominator>>
ConvertStrength(strength) == <<strength, 100>>

\* a strength value on its way to the consumer, with what the statements
\* about sessions need to know of it: whether it was pulled or pushed, the
\* identity it was read from, the number (up to 2) of subscriptions created
\* since, and the identity of the first of these (the last two are kept up
\* to date in the scene "sessions")
Item(val, src, path) == [val |-> val, src |-> src, path |-> path, age |-> 0, via |-> NoStr]
AgedAll(ch, path) ==
  [ch EXCEPT !.buf = [i \in DOMAIN ch.buf |->
     [ch.buf[i] EXCEPT !.age = IF @ < 2 THEN @ + 1 ELSE @,
                       !.via = IF ch.buf[i].age = 0 THEN path ELSE @]]]

\* a faulty variant: only the root path counts as no identity
TrackApRootOnly(path, bindOk) ==
  IF path = "/" THEN NoAp
  ELSE IF ~bindOk THEN NoAp
  ELSE [path |-> path, sig |-> <<>>]

\* a faulty variant: a subscription is kept although the bind failed
TrackApIgnoreFailure(path, bindOk) ==
  IF path = "" \/ path = "/" THEN NoAp
  ELSE [path |-> path, sig |-> <<>>]

\* a faulty variant: the new subscription inherits what the old one holds
TrackApKeepEvents(path, bindOk) ==
  IF path = "" \/ path = "/" THEN NoAp
  ELSE IF ~bindOk THEN NoAp
  ELSE [path |-> path, sig |-> ap.sig]

\* track_ap / track_modem: no binding to a sentinel identity
TrackAp(path, bindOk) ==
  IF path = "" \/ path = "/" THEN NoAp
  ELSE IF ~bindOk THEN NoAp
  ELSE [path |-> path, sig |-> <<>>]

TrackApLog(path, bindOk) ==
  IF path # "" /\ path # "/" /\ ~bindOk
    THEN {IF scene = "cellular" THEN "failed to bind to modem"
          ELSE "failed to bind to access point"}
    ELSE {}

\* the identities track_ap / track_modem tries to bind
TrackApBinds(path) == IF path = "" \/ path = "/" THEN {} ELSE {path}

\* what one call of track_ap / track_modem does with the provider, old being
\* the subscription it replaces
TrackApOp(old, path, bindOk) ==
  BusOp("track", {path}, TrackApBinds(path),
        IF old = NoAp THEN {} ELSE {old.path},
        IF bindOk THEN {} ELSE TrackApBinds(path))

(* inputs *)
ApPaths == IF scene = "sessions" THEN {"/ap/1", "/ap/2"} ELSE {"/ap/1", "/", ""}
StrengthInputs == IF scene = "sessions" THEN {40} ELSE {40, 80}
DeviceInputs == IF scene = "sessions" THEN {TRUE} ELSE BOOLEAN
InitialApInputs == IF scene = "sessions" THEN ApPaths ELSE ApPaths \cup {NoStr}
BindInputs == IF scene = "sessions" THEN {TRUE} ELSE BOOLEAN

\* the task of listen_*_strength up to its loop
StInit ==
  /\ scene \in SessionScenes
  /\ nmPc = "init"
  /\ \E dev \in DeviceInputs, path \in InitialApInputs, bindOk \in BindInputs :
       IF ~dev
         THEN /\ nmPc' = "done"
              /\ mp' = MpscDropSender(mp)
              /\ nmLog' = {IF scene = "cellular" THEN "failed to bind to modem device"
                           ELSE "failed to bind to wireless device"}
              /\ UNCHANGED <<ap, read, nmOp, nmHeld>>
         ELSE /\ nmPc' = "top"
              /\ ap' = IF path = NoStr THEN NoAp ELSE TrackAp(path, bindOk)
              /\ nmOp' = IF path = NoStr THEN NoBusOp ELSE TrackApOp(NoAp, path, bindOk)
              /\ nmHeld' = {}
              /\ nmLog' = IF path = NoStr
                            THEN {IF scene = "cellular"
                                    THEN "failed to read active modem"
                                    ELSE "failed to read initial active access point"}
                            ELSE TrackApLog(path, bindOk)
              /\ read' = TRUE
              /\ UNCHANGED mp
  /\ UNCHANGED <<scene, netModule, audioVars, callRes, mst, msent, mrecv, trackers,
                 states, changeQ, apQ, pending>>

\* a faulty variant: a loop that goes to its select without reading
StTopNoRead ==
  /\ scene \in SessionScenes
  /\ nmPc = "top"
  /\ read' = FALSE
  /\ nmPc' = "select"
  /\ nmLog' = {}
  /\ UNCHANGED <<nmHeld, nmOp, scene, netModule, audioVars, callRes, mp, mst, msent, mrecv, trackers,
                 states, changeQ, ap, apQ, pending>>

\* top of the loop: after a (re)binding, read the strength of what is tracked
StTop ==
  /\ scene \in SessionScenes
  /\ nmPc = "top"
  /\ read' = FALSE
  /\ IF read /\ ap # NoAp
       THEN \E ok \in BOOLEAN, strength \in StrengthInputs :
              IF ok THEN /\ pending' = <<Item(ConvertStrength(strength), "pull", ap.path)>>
                         /\ nmPc' = "send"
                         /\ nmLog' = {}
              ELSE /\ nmPc' = "select"
                   /\ nmLog' = {"failed to read new strength"}
                   /\ UNCHANGED pending
       ELSE /\ nmPc' = "select"
            /\ nmLog' = {}
            /\ UNCHANGED pending
  /\ UNCHANGED <<nmHeld, nmOp, scene, netModule, audioVars, callRes, mp, mst, msent, mrecv, trackers,
                 states, changeQ, ap, apQ>>

\* either tx.send(..).await of the loop
StSend ==
  /\ scene \in SessionScenes
  /\ nmPc = "send"
  /\ TaskSend(Head(pending))
  /\ pending' = <<>>
  /\ UNCHANGED <<nmHeld, nmOp, scene, netModule, audioVars, callRes, mst, mrecv, trackers, states,
                 changeQ, ap, apQ, read>>

\* select, first branch: the active access point / the modem has changed
StChanged ==
  /\ scene \in SessionScenes
  /\ nmPc = "select"
  /\ apQ # <<>>
  /\ \E bindOk \in BindInputs :
       /\ ap' = TrackAp(Head(apQ), bindOk)
       /\ nmOp' = TrackApOp(ap, Head(apQ), bindOk)
       /\ nmHeld' = IF ap = NoAp THEN {} ELSE {ap.path}
       /\ nmLog' = TrackApLog(Head(apQ), bindOk)
  /\ mp' = IF scene = "sessions" /\ ap' # NoAp THEN AgedAll(mp, ap'.path) ELSE mp
  /\ apQ' = Tail(apQ)
  /\ read' = TRUE
  /\ nmPc' = "top"
  /\ UNCHANGED <<scene, netModule, audioVars, callRes, mst, msent, mrecv, trackers,
                 states, changeQ, pending>>

\* select, second branch: the strength stream of what is tracked yields
StSignal ==
  /\ scene \in SessionScenes
  /\ nmPc = "select"
  /\ apQ = <<>>
  /\ ap # NoAp
  /\ ap.sig # <<>>
  /\ pending' = <<Item(Head(ap.sig), "push", ap.path)>>
  /\ ap' = [ap EXCEPT !.sig = Tail(@)]
  /\ nmPc' = "send"
  /\ nmLog' = {}
  /\ UNCHANGED <<nmHeld, nmOp, scene, netModule, audioVars, callRes, mp, mst, msent, mrecv, trackers,
                 states, changeQ, apQ, read>>

\* the provider changes the active access point of the device / its modem
EnvSelector ==
  /\ scene \in SessionScenes
  /\ nmPc \in {"top", "send", "select"}
  /\ \E path \in ApPaths : apQ' = <<path>>
  /\ UNCHANGED <<nmHeld, nmOp, scene, netModule, audioVars, callRes, nmPc, nmLog, mp, mst, msent, mrecv,
                 trackers, states, changeQ, ap, read, pending>>

\* the provider changes the strength of the tracked access point / modem
EnvStrength ==
  /\ scene \in SessionScenes
  /\ nmPc \in {"top", "send", "select"}
  /\ ap # NoAp
  /\ \E strength \in StrengthInputs :
       ap' = [ap EXCEPT !.sig = <<ConvertStrength(strength)>>]
  /\ UNCHANGED <<nmHeld, nmOp, scene, netModule, audioVars, callRes, nmPc, nmLog, mp, mst, msent, mrecv,
                 trackers, states, changeQ, apQ, read, pending>>

(* ---------------------------------------------------------------------- *)
(* listen_primary_connection: a stream that maps, when it is polled, the
   latest change of the primary connection; it has no task and no channel *)

\* Option<OwnedObjectPath>
NonePath == [some |-> FALSE, path |-> NoStr]
SomePath(path) == [some |-> TRUE, path |-> path]

\* a faulty variant: only the root path counts as no connection
PrimaryItemRootOnly(path) == IF path = "/" THEN NonePath ELSE SomePath(path)

\* the closure given to map
PrimaryItem(path) == IF path = "" \/ path = "/" THEN NonePath ELSE SomePath(path)

(* inputs *)
PrimaryPaths == {"", "/", "/ac/1", "/ac/2"}

\* listen_primary_connection: returns the stream
PcListen ==
  /\ scene = "primary"
  /\ nmPc = "connected"
  /\ callRes' = [callRes EXCEPT !.handle = "stream"]
  /\ nmPc' = "stream"
  /\ mst' = "open"
  /\ UNCHANGED <<nmHeld, nmOp, scene, netModule, audioVars, nmLog, mp, msent, mrecv, trackers,
                 states, changeQ, ap, apQ, read, pending>>

\* the closure given to filter_map, on the change the stream holds: pending
\* is what the poll yields
PcPoll ==
  /\ scene = "primary"
  /\ nmPc = "stream"
  /\ mst = "open"
  /\ apQ # <<>>
  /\ mrecv < MaxSends
  /\ \E ok \in BOOLEAN :
       IF ok
         THEN /\ pending' = <<PrimaryItem(Head(apQ))>>
              /\ mrecv' = mrecv + 1
              /\ nmLog' = {}
              /\ nmOp' = BusOp("primary", {Head(apQ)}, {}, {}, {})
         ELSE /\ pending' = <<>>
              /\ nmLog' = {"failed to get new primary connection path"}
              /\ nmOp' = BusOp("primary", {Head(apQ)}, {}, {}, {Head(apQ)})
              /\ UNCHANGED mrecv
  /\ apQ' = Tail(apQ)
  /\ UNCHANGED <<nmHeld, scene, netModule, audioVars, callRes, nmPc, mp, mst, msent, trackers,
                 states, changeQ, ap, read>>

\* the provider changes the primary connection
EnvPrimaryConnection ==
  /\ scene = "primary"
  /\ nmPc = "stream"
  /\ \E path \in PrimaryPaths : apQ' = <<path>>
  /\ UNCHANGED <<nmHeld, nmOp, scene, netModule, audioVars, callRes, nmPc, nmLog, mp, mst, msent, mrecv,
                 trackers, states, changeQ, ap, read, pending>>

(* the consumer of a bus-backed stream                                     *)
(* ---------------------------------------------------------------------- *)
\* one poll of the ReceiverStream that does not return Pending
StreamPoll ==
  /\ scene \in TaskScenes
  /\ mst = "open"
  /\ LET r == MpscRecv(mp) IN
     /\ r.kind # "empty"
     /\ mp' = r.ch
     /\ IF r.kind = "value"
          THEN /\ mrecv' = mrecv + 1
               /\ UNCHANGED mst
          ELSE /\ mst' = "ended"
               /\ UNCHANGED mrecv
  /\ UNCHANGED <<nmHeld, nmOp, scene, netModule, audioVars, callRes, nmPc, nmLog, msent, trackers, states,
                 changeQ, ap, apQ, read, pending>>

\* the consumer drops the stream
StreamDrop ==
  /\ scene \in TaskScenes
  /\ mst \in {"open", "ended"}
  /\ mst' = "dropped"
  /\ mp' = MpscDropReceiver(mp)
  /\ UNCHANGED <<nmHeld, nmOp, scene, netModule, audioVars, callRes, nmPc, nmLog, msent, mrecv,
                 trackers, states, changeQ, ap, apQ, read, pending>>

(* ---------------------------------------------------------------------- *)
(* The network module as a state machine                                   *)
(* ---------------------------------------------------------------------- *)
\* the connections the streams report to the module
ModuleConnections ==
  {[path |-> p, name |-> "net", kind |-> ActiveConnectionKindParse("802-11-wireless"),
    state |-> ActiveConnectionStateParse(c), device |-> "/dev/1"] :
     p \in {"/ac/1", "/ac/2"}, c \in {1, 2}}
ModuleLists ==
  UNION {[1..n -> ModuleConnections] : n \in 0..MaxActive}
MessageInputs ==
  {NetworkMessage("PrimaryConnection", p, <<>>, 0) : p \in {NoStr, "/ac/1", "/ac/2"}}
  \cup {NetworkMessage("ActiveConnections", NoStr, l, 0) : l \in ModuleLists}
  \cup {NetworkMessage("WirelessStrength", NoStr, <<>>, 50),
        NetworkMessage("CellularStrength", NoStr, <<>>, 50)}

\* the runtime hands a message of a subscription to update
ModuleUpdate ==
  /\ scene = "module"
  /\ \E message \in MessageInputs : netModule' = NewtorkModuleUpdate(netModule, message)
  /\ UNCHANGED <<scene, audioVars, callRes, nmVars>>

vars == <<scene, netModule, audioVars, callRes, nmVars>>

\* the audio mirror with its listeners
InitFanout == scene = "fanout" /\ InitAudio /\ IdleBus
NextFanout ==
  \/ PwRunSetup
  \/ PwGlobal
  \/ PwGlobalRemove
  \/ PwNodeParam
  \/ PwMetadataProperty
  \/ DropInstance
  \/ ListenSome
  \/ PollSome
  \/ DropListenerSome

\* the bus-backed mirrors
InitBusScenes == scene \in BusScenes /\ InitAudio /\ InitBus
NextBus ==
  \/ NmConnect
  \/ NmListen
  \/ AcInit
  \/ AcSend
  \/ AcChange
  \/ AcMember
  \/ AcNoStream
  \/ EnvActiveConnections
  \/ EnvConnectionProperty
  \/ StInit
  \/ StTop
  \/ StSend
  \/ StChanged
  \/ StSignal
  \/ EnvSelector
  \/ EnvStrength
  \/ StreamPoll
  \/ StreamDrop

\* a strength mirror whose selector moves between two bindable identities
InitSessions == scene = "sessions" /\ InitAudio /\ InitBus
NextSessions ==
  \/ NmConnect
  \/ NmListen
  \/ StInit
  \/ StTop
  \/ StSend
  \/ StChanged
  \/ StSignal
  \/ EnvSelector
  \/ EnvStrength
  \/ StreamPoll
  \/ StreamDrop
SpecSessions == InitSessions /\ [][NextSessions]_vars

\* the stream of the primary connection with its consumer
InitPrimary == scene = "primary" /\ InitAudio /\ InitBus
NextPrimary ==
  \/ NmConnect
  \/ PcListen
  \/ PcPoll
  \/ EnvPrimaryConnection
  \/ StreamDrop
SpecPrimary == InitPrimary /\ [][NextPrimary]_vars

\* the active connections mirror over one connection
InitTracker == scene = "tracker" /\ InitAudio /\ InitBus
NextTracker ==
  \/ NmConnect
  \/ NmListen
  \/ AcInit
  \/ AcSend
  \/ AcChange
  \/ AcMember
  \/ AcUnreadable
  \/ AcNoStream
  \/ EnvActiveConnections
  \/ EnvConnectionProperty
  \/ StreamPoll
  \/ StreamDrop
SpecTracker == InitTracker /\ [][NextTracker]_vars

\* the active connections mirror over three connections
InitReconcile == scene = "reconcile" /\ InitAudio /\ InitBus
NextReconcile ==
  \/ NmConnect
  \/ NmListen
  \/ AcInit
  \/ AcSend
  \/ AcChange
  \/ AcMember
  \/ AcNoStream
  \/ EnvActiveConnections
  \/ EnvConnectionProperty
  \/ StreamPoll
  \/ StreamDrop
SpecReconcile == InitReconcile /\ [][NextReconcile]_vars

\* every mirror with its consumers
Init == InitFanout \/ InitBusScenes
Next == NextFanout \/ NextBus
Spec == Init /\ [][Next]_vars

\* every mirror, with consumers that keep polling and tasks that keep running:
\* a poll that can yield is eventually made, a step a task can take is
\* eventually taken; the provider owes no event
TaskStep ==
  \/ AcInit \/ AcSend \/ AcChange \/ AcMember \/ AcNoStream
  \/ StInit \/ StTop \/ StSend \/ StChanged \/ StSignal
Fairness ==
  /\ \A l \in Listeners : WF_vars(Poll(l))
  /\ WF_vars(StreamPoll)
  /\ WF_vars(TaskStep)
InitPolling == scene = "polling" /\ InitAudio /\ IdleBus
NextPolling ==
  \/ PwRunSetup
  \/ PwGlobal
  \/ PwNodeParam
  \/ ListenSinks
  \/ PollSome
  \/ DropListenerSome
FairSpec == (InitPolling \/ InitBusScenes) /\ [][NextPolling \/ NextBus]_vars /\ Fairness

\* the audio worker and its commands
InitCommands == scene = "audio" /\ InitAudio /\ IdleBus
NextCommands ==
  \/ PwRunSetup
  \/ PwGlobal
  \/ PwGlobalRemove
  \/ PwNodeInfo
  \/ PwNodeParam
  \/ PwDeviceParam
  \/ PwMetadataProperty
  \/ PwAction
  \/ SendCommand
  \/ DropInstance
SpecAudio == InitCommands /\ [][NextCommands]_vars

\* the audio worker with a node on a device and a node without one
InitRoutes == scene = "routes" /\ InitAudio /\ IdleBus
NextRoutes ==
  \/ PwRunSetup
  \/ PwGlobal
  \/ PwNodeParam
  \/ PwDeviceParam
  \/ PwAction
  \/ SendCommand
SpecRoutes == InitRoutes /\ [][NextRoutes]_vars

\* the network module and its messages
InitModule == scene = "module" /\ InitAudio /\ IdleBus
NextModule == ModuleUpdate
SpecModule == InitModule /\ [][NextModule]_vars

\* the audio worker with nodes on and off a device
InitDevices == scene = "devices" /\ InitAudio /\ IdleBus
NextDevices ==
  \/ PwRunSetup
  \/ PwGlobal
  \/ PwGlobalRemove
  \/ PwNodeInfo
  \/ PwNodeParam
  \/ PwDeviceParam
  \/ PwAction
  \/ SendCommand
SpecDevices == InitDevices /\ [][NextDevices]_vars

(* ====================================================================== *)
(* Claims                                                                  *)
(* ====================================================================== *)
Live(l) == lis[l].st = "live"
ChanOf(l) == bc[lis[l].ch]
Newest(ch) == ch.buf[BcIdx(ch.tail - 1)]

\* what a publish on channel c carries when the tables are ns and ds
Current(c, ns, ds) ==
  CASE c = "defaults" -> ds
    [] c = "sinks" -> NodeList(ns, "Sink")
    [] c = "sources" -> NodeList(ns, "Source")

\* C1: on each audio channel a listener receives the snapshots in the order
\* they were published - a snapshot it receives is newer than the one it
\* received before - it may skip snapshots, and once it has caught up with a
\* channel on which something was published since its creation, the last
\* snapshot it received is the newest one.
C1_LatestWins ==
  /\ [][\A l \in Listeners :
          (Live(l) /\ lis'[l].st = "live" /\ lis'[l].lastPos # lis[l].lastPos)
            => /\ lis'[l].lastPos > lis[l].lastPos
               /\ lis'[l].lastPos < bc[lis[l].ch].tail
               /\ bc[lis[l].ch].buf[BcIdx(lis'[l].lastPos)].pos = lis'[l].lastPos]_vars
  /\ [](\A l \in Listeners :
          (Live(l) /\ lis[l].next = ChanOf(l).tail /\ ChanOf(l).tail > lis[l].created)
            => lis[l].lastPos = ChanOf(l).tail - 1)

\* C1 witness: three snapshots were published after a listener's creation, it
\* has caught up, and the last one it received is the third
C1_Witness ==
  \E l \in Listeners :
    /\ Live(l) /\ lis[l].created = 0 /\ ChanOf(l).tail = 3
    /\ lis[l].next = 3 /\ lis[l].lastPos = 2

C3_LatestArrives ==
  /\ \A l \in Listeners :
        (Live(l) /\ lis[l].next < ChanOf(l).tail)
          ~> (~Live(l) \/ (/\ lis[l].next = ChanOf(l).tail
                           /\ lis[l].lastPos = ChanOf(l).tail - 1))
  /\ (mst = "open" /\ mrecv < msent) ~> (mst # "open" \/ mrecv = msent)

\* C3 witness: two snapshots were published on the channel of a listener
\* created before them, and it has been given the second
C3_Witness ==
  \E l \in Listeners :
    /\ Live(l)
    /\ lis[l].created = 0
    /\ ChanOf(l).tail = 2
    /\ lis[l].lastPos = 1
    /\ lis[l].next = 2

\* C4: a listener never receives a snapshot published before its creation.
C4_NoReplay ==
  \A l \in Listeners :
    lis[l].st \in {"live", "ended"} =>
      /\ lis[l].next >= lis[l].created
      /\ lis[l].lastPos # -1 => lis[l].lastPos >= lis[l].created

\* C4 witness: a listener created after a publish has received a snapshot
C4_Witness ==
  \E l \in Listeners : Live(l) /\ lis[l].created >= 1 /\ lis[l].lastPos >= 1

\* C5: processing PipewireAction::Update sends exactly one snapshot on each of
\* the three channels - the current DefaultState, sink list and source list -
\* whether or not anything changed, and changes no tracked state. (On a
\* channel without receivers the send fails and is logged.)
IsUpdateStep ==
  /\ pwThread = "running" /\ actq # <<>> /\ Head(actq).kind = "Update"
  /\ actq' = Tail(actq) /\ pwEvents' = pwEvents + 1
C5_TriggerUpdate ==
  [][IsUpdateStep =>
       /\ UNCHANGED <<nodes, devices, defInner, defState, lastOp, pwThread>>
       /\ \A c \in Chans :
            IF BcSendOk(bc[c])
              THEN /\ bc'[c].tail = bc[c].tail + 1
                   /\ Newest(bc'[c]).pos = bc[c].tail
                   /\ Newest(bc'[c]).val = Current(c, nodes, defState)
              ELSE bc'[c] = bc[c]
       /\ (~BcSendOk(bc["defaults"]))
            => "failed to send triggered update to channel" \in pwLog'
       /\ (~BcSendOk(bc["sinks"]) \/ ~BcSendOk(bc["sources"]))
            => "failed to send node update to channel" \in pwLog']_vars

\* C5 witness: the only event processed so far published on all three channels
C5_Witness ==
  /\ pwEvents = 1
  /\ \A c \in Chans : bc[c].tail = 1 /\ Newest(bc[c]).val = Current(c, nodes, defState)

\* C6: what one listener does - being created, reading, being dropped - leaves
\* every other listener's position and what it would receive next unchanged,
\* and leaves the worker, its tables and what was published unchanged.
ListenerStep(k) == lis'[k] # lis[k]
C6_Independent ==
  [][\A k \in Listeners :
       ListenerStep(k) =>
         /\ \A l \in Listeners \ {k} :
              /\ lis'[l] = lis[l]
              /\ Live(l) =>
                   BcRecv(bc'[lis[l].ch], lis[l].next) = BcRecv(bc[lis[l].ch], lis[l].next)
         /\ \A c \in Chans :
              /\ bc'[c].tail = bc[c].tail
              /\ bc'[c].closed = bc[c].closed
              /\ \A i \in 1..BcCapacity :
                   /\ bc'[c].buf[i].pos = bc[c].buf[i].pos
                   /\ bc'[c].buf[i].val = bc[c].buf[i].val
         /\ UNCHANGED <<pwThread, nodes, devices, defInner, defState, actq, pwEvents>>]_vars

\* C6 witness: two listeners of one channel have both received the same snapshot
C6_Witness ==
  \E l \in Listeners, k \in Listeners :
    /\ l # k /\ Live(l) /\ Live(k) /\ lis[l].ch = lis[k].ch
    /\ lis[l].lastPos >= 0 /\ lis[l].lastPos = lis[k].lastPos

\* C7: send_command returns Ok exactly when the command was enqueued, and Err
\* exactly when the worker's receiving end no longer exists.
C7_ResultTellsReceiver ==
  cmdResult.res # "none" =>
    /\ cmdResult.res = "Ok" <=> cmdResult.queued
    /\ cmdResult.res = "Err" <=> ~cmdResult.rxAlive

\* C8: a publish that finds no receivers is logged and otherwise ignored: the
\* worker keeps running, nothing is published, the tables hold the mutation,
\* and what any publish carries is the state of the tables after the mutation.
NoReceivers == \A c \in Chans : ~BcSendOk(bc[c])
C8_NoReceivers ==
  [][(pwEvents' = pwEvents + 1) =>
       /\ pwThread' = "running"
       /\ \A c \in Chans :
            /\ bc'[c].tail > bc[c].tail => Newest(bc'[c]).val = Current(c, nodes', defState')
            /\ ~BcSendOk(bc[c]) => bc'[c] = bc[c]
       /\ (NoReceivers /\ nodes' # nodes)
            => "failed to send node update to channel" \in pwLog'
       /\ (NoReceivers /\ defState' # defState)
            => "failed to send default update to channel" \in pwLog']_vars

\* C8 witness: with no receivers left, the one event processed so far added a
\* node, and the failed publish was logged
C8_Witness ==
  /\ NoReceivers /\ pwThread = "running" /\ pwEvents = 1
  /\ nodes # <<>>
  /\ "failed to send node update to channel" \in pwLog

\* C9 (as stated): once the consumer has dropped the stream of a bus-backed
\* mirror, the task eventually terminates. It fails for a task that waits in
\* its select for an event that does not come.
C9_DroppedLeadsToReturn ==
  (mst = "dropped") ~> (nmPc = "done")

\* C9 (amended): once the consumer has dropped the stream, the next publish the
\* task attempts fails, and the task returns on it without publishing; a task
\* at a publish does get there; a task never panics.
C9_ReturnsAtNextPublish ==
  /\ [][(mst = "dropped" /\ nmPc = "send" /\ nmPc' # nmPc)
          => (nmPc' = "done" /\ ~mp'.tx /\ msent' = msent
              /\ "stream was dropped" \in nmLog')]_vars
  /\ [](nmPc \in {"none", "new", "unconnected", "connected", "init", "top",
                  "send", "select", "done"})
  /\ (mst = "dropped" /\ nmPc = "send") ~> (nmPc = "done")

\* C9 witness: the task has published, the stream was dropped, and the task
\* has returned on its next publish
C9_Witness ==
  /\ mst = "dropped"
  /\ nmPc = "done"
  /\ msent > 0
  /\ "stream was dropped" \in nmLog

\* C10 (as stated): a failure of the initial setup - connecting, or the first
\* enumeration - is returned to the caller as an error. It fails for the first
\* enumeration of the active connections and for the setup of the audio
\* worker, which are logged after the caller was given its handle.
C10_SetupFailureReturned ==
  (\/ callRes.cause \notin {"none", "ok"}
   \/ "failed to read active connections" \in nmLog
   \/ pwThread = "exited")
    => callRes.connect = "Err"

\* C10 (amended): only a failure of NetworkManager::connnect is returned to the
\* caller, and then nothing is started. A failure of the first enumeration of
\* the active connections, of binding the device of a strength mirror, or of
\* the setup of the audio worker is logged by the task, whose caller holds
\* its stream or instance: the active connections task goes on with what it
\* could track, the other two end. What the caller was given never changes
\* afterwards.
C10_OnlyConnectFails ==
  /\ [](/\ (callRes.cause \notin {"none", "ok"}) <=> (callRes.connect = "Err")
        /\ callRes.connect = "Err" => (callRes.handle = "none" /\ nmPc = "unconnected")
        /\ "failed to read active connections" \in nmLog
             => (callRes.connect = "Ok" /\ callRes.handle = "stream"
                 /\ nmPc = "send" /\ DOMAIN states = {})
        /\ (nmLog \cap {"failed to bind to wireless device",
                        "failed to bind to modem device"} # {})
             => (callRes.connect = "Ok" /\ callRes.handle = "stream"
                 /\ nmPc = "done")
        /\ pwThread = "exited"
             => (callRes.handle = "instance"
                 /\ "failed to run pipewire thread" \in pwLog))
  /\ [][callRes.handle # "none" => callRes' = callRes]_vars

\* C10 witness: the first enumeration has failed, and the caller holds a stream
\* on which the task is about to publish the empty collection
C10_Witness ==
  /\ "failed to read active connections" \in nmLog
  /\ callRes.handle = "stream"
  /\ nmPc = "send"
  /\ mst = "open"

\* C11: the stream of the primary connection yields None for a change whose
\* path is empty or the root path, Some(path) for every other path that was
\* read, and nothing for a change that could not be read; it binds nothing
C11_PrimarySentinel ==
  (scene = "primary" /\ nmOp.what = "primary") =>
    /\ nmOp.binds = {}
    /\ \A path \in nmOp.arg :
         IF path \in nmOp.failed THEN pending = <<>>
         ELSE IF path \in {"", "/"} THEN pending = <<[some |-> FALSE, path |-> NoStr]>>
         ELSE pending = <<[some |-> TRUE, path |-> path]>>
C11_Witness ==
  /\ scene = "primary"
  /\ nmOp.what = "primary"
  /\ nmOp.arg = {""}
  /\ nmOp.failed = {}
  /\ pending = <<NonePath>>
  /\ mrecv = 2

\* C12: after the initial bind and after every change of the selector that
\* gave a subscription, the task reads the current strength before it takes
\* anything the subscription pushed, and a value it could read is the next
\* thing it sends
C12_PullBeforePush ==
  [][(scene \in StrengthScenes) =>
       \* a bind that gave a subscription asks for the read
       /\ (nmPc \in {"init", "select"} /\ nmPc' = "top" /\ ap' # NoAp) => read'
       \* the read is made at the top of the loop, before the select
       /\ (nmPc = "top" /\ nmPc' # "top" /\ read /\ ap # NoAp) =>
            \/ /\ nmPc' = "send"
               /\ Len(pending') = 1
               /\ pending'[1].src = "pull"
               /\ pending'[1].path = ap.path
            \/ /\ nmPc' = "select"
               /\ nmLog' = {"failed to read new strength"}
       \* a pushed value is only taken once no read is due
       /\ (pending' # pending /\ pending' # <<>> /\ pending'[1].src = "push") =>
            nmPc = "select" /\ ~read
       /\ read' => nmPc' = "top"
       \* what is sent is what was read or taken
       /\ (nmPc = "send" /\ nmPc' = "select") =>
            /\ Len(mp'.buf) = Len(mp.buf) + 1
            /\ mp'.buf[Len(mp'.buf)] = pending[1]]_vars
C12_Witness ==
  /\ scene = "wireless"
  /\ nmOp.what = "track"
  /\ nmOp.unbinds # {}
  /\ nmPc = "select"
  /\ ap # NoAp
  /\ ap.sig # <<>>
  /\ mp.buf # <<>>
  /\ mp.buf[1].src = "pull"
  /\ mp.buf[1].age = 0

C14_SentinelIdle ==
  [][(scene \in StrengthScenes) =>
       /\ (nmPc \in {"init", "select"} /\ nmPc' = "top" /\ nmOp'.what = "track"
             /\ nmOp'.arg \subseteq {"", "/"}) =>
            /\ nmOp'.binds = {}
            /\ ap' = NoAp
       /\ (ap = NoAp /\ nmPc \in {"top", "send", "select"}) =>
            /\ nmPc # "send"
            /\ msent' = msent
            /\ Len(mp'.buf) <= Len(mp.buf)
            /\ ap' # NoAp =>
                 /\ nmPc = "select"
                 /\ apQ # <<>>
                 /\ apQ[1] \notin {"", "/"}
                 /\ ap'.path = apQ[1]]_vars
C14_Witness ==
  /\ scene = "cellular"
  /\ nmOp = BusOp("track", {"/"}, {}, {"/ap/1"}, {})
  /\ ap = NoAp
  /\ nmPc = "select"
  /\ msent = 2
  /\ apQ = <<>>

\* C15: a bind to a newly named identity that fails leaves the task running
\* without a subscription, sending nothing; a later change to an identity it
\* can bind gives it a subscription again, on the same channel
C15_FailedBindRecovers ==
  [][(scene \in StrengthScenes) =>
       /\ (nmPc \in {"init", "select"} /\ nmPc' = "top" /\ nmOp'.failed # {}) =>
            /\ ap' = NoAp
            /\ mp'.tx
            /\ nmLog' \in {{"failed to bind to access point"}, {"failed to bind to modem"}}
       /\ (nmOp.what = "track" /\ nmOp.failed # {}) =>
            /\ ap = NoAp
            /\ nmPc \in {"top", "select"}
            /\ mp.tx
            /\ msent' = msent
            /\ nmPc' \in {"top", "select"}
            /\ (nmPc = "select" /\ nmPc' = "top" /\ nmOp'.failed = {} /\ nmOp'.binds # {}) =>
                 /\ ap' = [path |-> apQ[1], sig |-> <<>>]
                 /\ read'
                 /\ mp'.tx
                 /\ mp'.rx = mp.rx
                 /\ Len(mp'.buf) = Len(mp.buf)]_vars
C15_Witness ==
  /\ scene = "wireless"
  /\ nmOp = BusOp("track", {"/ap/1"}, {"/ap/1"}, {"/ap/1"}, {"/ap/1"})
  /\ ap = NoAp
  /\ nmPc = "select"
  /\ apQ = <<"/ap/1">>
  /\ msent = 2
  /\ mst = "open"

\* C16: a notification of a tracked connection whose new value cannot be
\* read gives no snapshot and changes no field, and the connection stays
\* tracked
C16_UnreadableDropped ==
  [][(scene = "tracker") =>
       \A p \in DOMAIN trackers : \A e \in trackers[p].ev :
         (/\ ~(e.n # NoneU32)
          /\ nmPc = "select"
          /\ changeQ = <<>>
          /\ p \in DOMAIN trackers'
          /\ e \notin trackers'[p].ev) =>
           /\ states' = states
           /\ trackers'[p].scan = trackers[p].scan
           /\ DOMAIN trackers' = DOMAIN trackers
           /\ nmPc' = "select"
           /\ mp' = mp
           /\ msent' = msent]_vars
C16_Witness ==
  /\ scene = "tracker"
  /\ nmOp = BusOp("read", {"/ac/1"}, {}, {}, {"/ac/1"})
  /\ nmPc = "select"
  /\ DOMAIN trackers = {"/ac/1"}
  /\ trackers["/ac/1"].ev = {}
  /\ states["/ac/1"].state = "Activated"
  /\ msent = 2

C18_StateIsParseOfLast ==
  [][(scene = "tracker") =>
       /\ \A c \in StateCodes \cup {255, 65536} :
            ActiveConnectionStateParse(c) =
              IF c \in 1 .. 4
                THEN <<"Activating", "Activated", "Deactivating", "Deactivated">>[c]
                ELSE "Unknown"
       /\ \A p \in (DOMAIN trackers) \cap (DOMAIN trackers') :
            LET taken == {e \in trackers[p].ev \ trackers'[p].ev :
                            e.t = "State" /\ e.n # NoneU32 /\ nmPc = "select"}
            IN /\ \A e \in taken :
                    /\ trackers'[p].scan.state =
                         IF e.n \in 1 .. 4
                           THEN <<"Activating", "Activated", "Deactivating", "Deactivated">>[e.n]
                           ELSE "Unknown"
                    /\ states'[p].state = trackers'[p].scan.state
               /\ taken = {} => trackers'[p].scan.state = trackers[p].scan.state]_vars
C18_Witness ==
  /\ scene = "tracker"
  /\ nmPc = "send"
  /\ msent = 2
  /\ DOMAIN states = {"/ac/1"}
  /\ states["/ac/1"].state = "Unknown"
  /\ trackers["/ac/1"].scan.state = "Unknown"
  /\ trackers["/ac/1"].ev = {}

\* C19: every snapshot the active connections task publishes holds exactly one
\* connection for each path it tracks at that moment, namely the entry of its
\* states table, and nothing else; after each member update and each
\* structural change it processed, its next step is to publish
C19_WholeTable ==
  [][(scene = "connections") =>
       /\ (nmPc = "send" /\ nmPc' = "select") =>
            LET snapshot == mp'.buf[Len(mp'.buf)] IN
            /\ Len(mp'.buf) = Len(mp.buf) + 1
            /\ Cardinality(snapshot) = Cardinality(DOMAIN trackers)
            /\ \A p \in DOMAIN trackers :
                 /\ p \in DOMAIN states
                 /\ states[p] \in snapshot
                 /\ states[p].path = p
                 /\ states[p] = trackers[p].scan
       /\ (nmPc = "select" /\ (states' # states \/ DOMAIN trackers' # DOMAIN trackers
                                \/ (changeQ # <<>> /\ changeQ' = <<>>))) =>
            nmPc' = "send"]_vars
C19_Witness ==
  /\ scene = "connections"
  /\ nmPc = "select"
  /\ DOMAIN trackers = {"/ac/1", "/ac/2"}
  /\ states["/ac/1"].state = "Activated"
  /\ states["/ac/2"].state = "Activating"
  /\ mp.buf = <<{states["/ac/1"], states["/ac/2"]}>>
  /\ nmOp.what = "reconcile"

\* C20, as stated: when the task processes a change of the set of active
\* connections to the set S it processed in the change before, it binds
\* nothing, unbinds nothing and leaves its two tables as they are
C20_SameSetNoOp ==
  [][(/\ scene = "connections"
      /\ nmOp.what \in {"reconcile", "reconcile again"}
      /\ nmPc = "select"
      /\ changeQ = <<nmOp.arg>>
      /\ changeQ' = <<>>) =>
       /\ nmOp'.binds = {}
       /\ nmOp'.unbinds = {}
       /\ trackers' = trackers
       /\ states' = states]_vars

\* C20, amended: processing the same set S again unbinds nothing and leaves
\* every tracked connection as it is; it binds exactly the members of S whose
\* bind failed the time before, and nothing when none had failed
C20_SameSetRetriesFailed ==
  [][(/\ scene = "connections"
      /\ nmOp.what \in {"reconcile", "reconcile again"}
      /\ nmPc = "select"
      /\ changeQ = <<nmOp.arg>>
      /\ changeQ' = <<>>) =>
       /\ nmOp'.unbinds = {}
       /\ nmOp'.binds = nmOp.failed
       /\ DOMAIN trackers = nmOp.arg \ nmOp.failed
       /\ DOMAIN trackers \subseteq DOMAIN trackers'
       /\ DOMAIN trackers' = DOMAIN states'
       /\ \A p \in DOMAIN trackers :
            /\ trackers'[p] = trackers[p]
            /\ states'[p] = states[p]
       /\ DOMAIN trackers' = nmOp.arg \ nmOp'.failed
       /\ nmOp.failed = {} => (trackers' = trackers /\ states' = states)]_vars
C20_Witness ==
  /\ scene = "connections"
  /\ nmOp = BusOp("reconcile again", {"/ac/1", "/ac/2"}, {"/ac/2"}, {}, {})
  /\ DOMAIN trackers = {"/ac/1", "/ac/2"}
  /\ states["/ac/1"].state = "Activated"
  /\ nmPc = "send"

\* C21: a property notification of the metadata that leaves the four fields
\* of the DefaultState as they are publishes nothing on the defaults channel
C21_EchoNotPublished ==
  [][(/\ scene = "audio"
      /\ pwEvents' = pwEvents + 1
      /\ actq' = actq
      /\ defInner' = defInner
      /\ defInner # NoneU32
      /\ defState' = defState) =>
       bc'["defaults"].tail = bc["defaults"].tail]_vars

C24_ListIsClass ==
  [][(scene = "audio") =>
       \A c \in {"sinks", "sources"} :
         LET class == IF c = "sinks" THEN "Sink" ELSE "Source"
             members == {n \in DOMAIN nodes' : nodes'[n].class = class}
             published == bc'[c].buf[((bc'[c].tail - 1) % BcCapacity) + 1].val
         IN /\ bc'[c].tail # bc[c].tail =>
                 /\ Cardinality(published) = Cardinality(members)
                 /\ \A n \in members : nodes'[n].state \in published
                 /\ \A st \in published : st.id \in members
            /\ \A n \in DOMAIN nodes :
                 (n \notin DOMAIN nodes' /\ nodes[n].class = class /\ bc[c].rx > 0) =>
                   /\ bc'[c].tail = bc[c].tail + 1
                   /\ \A st \in published : st.id # n
            /\ \A n \in members :
                 (n \notin DOMAIN nodes /\ bc[c].rx > 0) =>
                   /\ bc'[c].tail = bc[c].tail + 1
                   /\ nodes'[n].state \in published]_vars
C24_Witness ==
  /\ scene = "audio"
  /\ DOMAIN nodes = {2}
  /\ 1 \notin pwGraph
  /\ bc["sources"].tail = 2
  /\ bc["sources"].buf[1].val = {}
  /\ bc["sinks"].tail = 1
  /\ bc["sinks"].buf[1].val = {nodes[2].state}

\* C25: when the active connections task has processed a change of the set
\* of connections to S, the tracked paths outside S are gone from both
\* tables, the tracked paths of S keep their tracker and their last known
\* state and are not bound again, the other paths of S are bound once and
\* those that could be bound are in both tables with their initial state;
\* when every binding succeeds, the tracked set is S
C25_Reconciled ==
  [][(/\ scene = "reconcile"
      /\ nmPc = "select"
      /\ changeQ # <<>>
      /\ changeQ' = Tail(changeQ)) =>
       LET S == Head(changeQ)
           old == DOMAIN trackers
       IN /\ nmPc' = "send"
          /\ nmOp'.arg = S
          /\ DOMAIN trackers' \subseteq S
          /\ DOMAIN states' = DOMAIN trackers'
          /\ nmOp'.unbinds = old \ S
          /\ \A p \in old \cap S :
               /\ p \in DOMAIN trackers'
               /\ trackers'[p] = trackers[p]
               /\ states'[p] = states[p]
               /\ p \notin nmOp'.binds
          /\ nmOp'.binds = S \ old
          /\ nmOp'.failed \subseteq nmOp'.binds
          /\ \A p \in S \ old :
               IF p \in nmOp'.failed
                 THEN p \notin DOMAIN trackers'
                 ELSE /\ p \in DOMAIN trackers'
                      /\ trackers'[p].ev = {}
                      /\ trackers'[p].scan = states'[p]
                      /\ states'[p].path = p
                      /\ states'[p].state = "Activating"
          /\ nmOp'.failed = {} => DOMAIN trackers' = S]_vars
\* one change has removed /ac/1, kept /ac/2 with the state it had reached,
\* and bound /ac/3
C25_Witness ==
  /\ scene = "reconcile"
  /\ nmOp.what = "reconcile"
  /\ nmOp.arg = {"/ac/2", "/ac/3"}
  /\ nmOp.unbinds = {"/ac/1"}
  /\ nmOp.binds = {"/ac/3"}
  /\ nmOp.failed = {}
  /\ DOMAIN trackers = {"/ac/2", "/ac/3"}
  /\ states["/ac/2"].state = "Activated"
  /\ states["/ac/3"].state = "Activating"

C27_StructuralFirst ==
  [][(/\ scene \in BusScenes
      /\ nmPc = "select"
      /\ nmPc' # "select") =>
       /\ (/\ scene = "connections"
           /\ changeQ # <<>>
           /\ \E p \in DOMAIN trackers : trackers[p].ev # {}) =>
             /\ changeQ' = Tail(changeQ)
             /\ nmOp'.what \in {"reconcile", "reconcile again"}
             /\ nmOp'.arg = Head(changeQ)
             /\ \A p \in (DOMAIN trackers) \cap Head(changeQ) :
                  /\ trackers'[p] = trackers[p]
                  /\ states'[p] = states[p]
       /\ (/\ scene \in StrengthScenes
           /\ apQ # <<>>
           /\ ap # NoAp
           /\ ap.sig # <<>>) =>
             /\ apQ' = Tail(apQ)
             /\ nmPc' = "top"
             /\ nmOp'.what = "track"
             /\ nmOp'.arg = {Head(apQ)}
             /\ pending' = pending
             /\ msent' = msent]_vars
\* the task is at its select with a change of the set and an event of a
\* connection that stays in the set both ready
C27_Witness ==
  /\ scene = "connections"
  /\ nmPc = "select"
  /\ changeQ = <<{"/ac/1"}>>
  /\ DOMAIN trackers = {"/ac/1", "/ac/2"}
  /\ trackers["/ac/1"].ev # {}
  /\ states["/ac/1"].state = "Activating"

\* C28: once the active connections task has processed a change of the set
\* that omits a tracked connection, the connection is in neither table and
\* in no snapshot the task sends from then on, until a later change lists
\* it; a state changes only to the initial state of a connection the step
\* has just bound or by an event pending at a tracker of the current set,
\* so that an event pending at a removed tracker is never applied, and a
\* connection that is listed again starts without pending events
C28_RemovedStaysOut ==
  [][(scene = "reconcile" /\ nmOp.what \in {"enumerate", "reconcile", "reconcile again"}) =>
       /\ (nmPc = "select" /\ changeQ # <<>> /\ changeQ' = Tail(changeQ)) =>
            \A p \in (DOMAIN trackers) \ Head(changeQ) :
              /\ p \notin DOMAIN trackers'
              /\ p \notin DOMAIN states'
       /\ msent' = msent + 1 =>
            /\ mp'.buf[Len(mp'.buf)] = {states[p] : p \in DOMAIN states}
            /\ \A c \in mp'.buf[Len(mp'.buf)] : c.path \in nmOp.arg
       /\ DOMAIN states \subseteq nmOp.arg
       /\ \A p \in DOMAIN states' :
            (p \notin DOMAIN states \/ states'[p] # states[p] \/ p \notin DOMAIN trackers) =>
              \/ /\ changeQ # <<>>
                 /\ p \in nmOp'.binds \ nmOp'.failed
                 /\ changeQ' = Tail(changeQ)
                 /\ p \in Head(changeQ)
                 /\ p \notin DOMAIN trackers
                 /\ trackers'[p].ev = {}
                 /\ states'[p] = trackers'[p].scan
              \/ /\ p \in DOMAIN trackers
                 /\ p \in nmOp.arg
                 /\ nmOp' = nmOp
                 /\ \E e \in trackers[p].ev :
                      /\ states'[p] = ScanEvent(trackers[p].scan, e)
                      /\ trackers'[p].ev = trackers[p].ev \ {e}]_vars
\* /ac/1 was removed by the last change, and the task has since sent a
\* snapshot of the connections that remain
C28_Witness ==
  /\ scene = "reconcile"
  /\ nmOp.what = "reconcile"
  /\ nmOp.unbinds = {"/ac/1"}
  /\ nmPc = "select"
  /\ "/ac/1" \notin DOMAIN states
  /\ Len(mp.buf) = 1
  /\ mp.buf[1] = {states[p] : p \in DOMAIN states}
  /\ \E c \in mp.buf[1] : c.state = "Activated"

\* C29: when the binding or an initial read of a connection fails, at the
\* first enumeration or in a change of the set, the task logs the failure,
\* the connection enters neither table, the entries of the other tracked
\* connections of the set stay as they were, the other new connections are
\* tracked, and the task goes on to send its snapshot
C29_FailedTrackSkipped ==
  [][(/\ scene = "reconcile"
      /\ nmPc \in {"init", "select"}
      /\ nmPc' = "send"
      /\ nmOp'.failed # {}
      /\ nmOp' # nmOp \/ changeQ' # changeQ) =>
       /\ nmOp'.what \in {"enumerate", "reconcile", "reconcile again"}
       /\ IF nmPc = "init"
            THEN "failed to track initial active connection" \in nmLog'
            ELSE nmLog' = {"failed to track new active connection"}
       /\ nmOp'.failed \subseteq nmOp'.binds
       /\ \A p \in nmOp'.failed :
            /\ p \notin DOMAIN trackers'
            /\ p \notin DOMAIN states'
       /\ \A p \in nmOp'.binds \ nmOp'.failed :
            /\ p \in DOMAIN trackers'
            /\ p \in DOMAIN states'
            /\ states'[p].name # NoStr
       /\ \A p \in (DOMAIN trackers) \cap nmOp'.arg :
            /\ trackers'[p] = trackers[p]
            /\ states'[p] = states[p]
       /\ DOMAIN trackers' = (nmOp'.arg \cap DOMAIN trackers) \cup (nmOp'.binds \ nmOp'.failed)]_vars
\* a change kept /ac/1, could not track /ac/2 and tracked /ac/3
C29_Witness ==
  /\ scene = "reconcile"
  /\ nmPc = "send"
  /\ nmOp.what = "reconcile"
  /\ nmOp.binds = {"/ac/2", "/ac/3"}
  /\ nmOp.failed = {"/ac/2"}
  /\ nmLog = {"failed to track new active connection"}
  /\ DOMAIN states = {"/ac/1", "/ac/3"}

\* C30: a strength task holds at most one subscription to an access point
\* (a modem) at every moment, also while it processes a change of the active
\* access point (modem): the subscriptions it holds while it binds, with the
\* one it binds, are at most one; after the step it holds the one just
\* bound, or none, and the step has sent no value
C30_OneSubscription ==
  [][(/\ scene \in StrengthScenes
      /\ nmPc = "select"
      /\ apQ # <<>>
      /\ apQ' = Tail(apQ)) =>
       /\ Cardinality(nmHeld') + Cardinality(nmOp'.binds \ nmOp'.failed) <= 1
       /\ nmOp'.arg = {Head(apQ)}
       /\ IF nmOp'.binds \ nmOp'.failed = {}
            THEN ap' = NoAp
            ELSE ap' = [path |-> Head(apQ), sig |-> <<>>]
       /\ msent' = msent
       /\ pending' = pending]_vars
\* the remainder of C30: what the task holds between two steps, and what a
\* step that processes a change leaves and sends
C30_OneAfterStep ==
  [][(/\ scene \in StrengthScenes
      /\ nmPc = "select"
      /\ apQ # <<>>
      /\ apQ' = Tail(apQ)) =>
       /\ nmOp'.arg = {Head(apQ)}
       /\ IF nmOp'.binds \ nmOp'.failed = {}
            THEN ap' = NoAp
            ELSE ap' = [path |-> Head(apQ), sig |-> <<>>]
       /\ msent' = msent
       /\ pending' = pending]_vars

\* C31: the defaults start with four fields "unknown"; in every state the
\* worker reaches with a metadata object attached, a notification for one of the four keys writes the parsed
\* name, or "unknown" for an absent or unparsable value, into the field of
\* that key and leaves the other three, and a notification with no key or
\* an unknown key changes no field and publishes nothing; a step of the
\* worker changes at most one field
C31_OneFieldPerKey ==
  /\ [](scene = "audio" =>
         LET fields == {"configured_sink", "sink", "configured_source", "source"}
             keys == {<<"default.configured.audio.sink", "configured_sink">>,
                      <<"default.audio.sink", "sink">>,
                      <<"default.configured.audio.source", "configured_source">>,
                      <<"default.audio.source", "source">>}
             values == {<<"{\"name\":\"a\"}", "a">>, <<"{\"name\":\"b\"}", "b">>,
                        <<"garbage", "unknown">>, <<NoStr, "unknown">>}
         IN /\ \A f \in fields : DefaultStateDefault[f] = "unknown"
            /\ pwThread = "starting" => defState = DefaultStateDefault
            /\ defInner # NoneU32 =>
                 /\ \A k \in keys, v \in values :
                      LET w == DefaultProperty(W, k[1], v[1]) IN
                      /\ w.defState[k[2]] = v[2]
                      /\ \A f \in fields \ {k[2]} : w.defState[f] = defState[f]
                 /\ \A k \in {NoStr, "bogus"}, v \in values :
                      LET w == DefaultProperty(W, k, v[1]) IN
                      /\ w.defState = defState
                      /\ w.bc = bc)
  /\ [][(scene = "audio") =>
          /\ Cardinality({f \in {"configured_sink", "sink", "configured_source", "source"} :
                            defState'[f] # defState[f]}) <= 1
          /\ defState' # defState =>
               /\ defInner # NoneU32
               /\ bc'["defaults"].rx > 0 =>
                    bc'["defaults"].tail = bc["defaults"].tail + 1]_vars
\* two notifications have set two fields and left the other two
C31_Witness ==
  /\ scene = "audio"
  /\ defState = [configured_sink |-> "unknown", sink |-> "a",
                 configured_source |-> "b", source |-> "unknown"]
  /\ bc["defaults"].tail = 2

\* C32: in every state in which the worker can take a step, the
\* announcement of a node adds it to the node table exactly when it has properties, its media.class is
\* Audio/Sink or Audio/Source and the bind succeeds, with the class of its
\* media.class; any other announcement of a node leaves the node table, the
\* device table and the channels as they are and sends nothing to a proxy;
\* a step of the worker never changes the class of a tracked node, and a
\* node enters the table only when it is announced
C32_AdmittedByClass ==
  /\ []((scene = "audio" /\ pwThread = "running" /\ pwEvents < MaxEvents) =>
         \A g \in {h \in GlobalInputs : h.type = "Node" /\ h.id \notin pwGraph} :
           LET w == Global(W, g)
               mc == IF g.hasProps /\ "media.class" \in DOMAIN g.props
                       THEN g.props["media.class"] ELSE NoStr
           IN IF mc \in {"Audio/Sink", "Audio/Source"} /\ g.bindOk
                THEN /\ DOMAIN w.nodes = (DOMAIN nodes) \cup {g.id}
                     /\ w.nodes[g.id].class = (IF mc = "Audio/Sink" THEN "Sink" ELSE "Source")
                     /\ \A n \in (DOMAIN nodes) \ {g.id} : w.nodes[n] = nodes[n]
                     /\ w.devices = devices
                ELSE /\ w.nodes = nodes
                     /\ w.devices = devices
                     /\ w.bc = bc
                     /\ w.lastOp = lastOp)
  /\ [][(scene = "audio") =>
          /\ \A n \in (DOMAIN nodes) \cap (DOMAIN nodes') : nodes'[n].class = nodes[n].class
          /\ \A n \in (DOMAIN nodes') \ (DOMAIN nodes) :
               /\ nodes'[n].class \in {"Sink", "Source"}
               /\ pwGraph' = pwGraph \cup {n}
               /\ n \notin pwGraph]_vars
\* node 1 was announced and not admitted, node 2 was admitted as a sink
C32_Witness ==
  /\ scene = "audio"
  /\ {1, 2} \subseteq pwGraph
  /\ DOMAIN nodes = {2}
  /\ nodes[2].class = "Sink"
  /\ bc["sinks"].tail = 1
  /\ bc["sources"].tail = 0

\* C33: in every state the worker reaches, a set_mute or set_volume for a
\* name leaves the tables, the defaults and the channels as they are; it
\* sends nothing to a proxy and logs when no tracked node has the name, or
\* the node found has a device and no route, or a device that is not
\* tracked, or a device without index for its route; otherwise it sends one
\* operation, to the node found or to its device; the node found has the
\* name. A step that sends a node or device operation is such a command.
C33_BlockedSetSendsNothing ==
  [][(scene = "devices") =>
       /\ \A name \in {"a", "c", "zz"}, mute \in BOOLEAN :
            /\ (NoneU32 \in SetTargets(nodes, name))
                  = (\A n \in DOMAIN nodes : nodes[n].state.name # name)
            /\ \A target \in SetTargets(nodes, name) :
                 LET w == IF mute THEN NodeTrackerSetMute(W, name, TRUE, target)
                          ELSE NodeTrackerSetVolume(W, name, <<2>>, target)
                     blocked ==
                       \/ target = NoneU32
                       \/ /\ nodes[target].device # NoneU32
                          /\ \/ nodes[target].state.route = NoneU32
                             \/ nodes[target].device \notin DOMAIN devices
                             \/ nodes[target].state.route
                                  \notin DOMAIN devices[nodes[target].device]
                 IN /\ w.nodes = nodes
                    /\ w.devices = devices
                    /\ w.defState = defState
                    /\ w.bc = bc
                    /\ target # NoneU32 => nodes[target].state.name = name
                    /\ IF blocked
                         THEN w.lastOp = lastOp /\ w.log # {}
                         ELSE /\ w.log = {}
                              /\ IF nodes[target].device = NoneU32
                                   THEN w.lastOp.to = "node" /\ w.lastOp.id = target
                                   ELSE /\ w.lastOp.to = "device"
                                        /\ w.lastOp.id = nodes[target].device
       /\ (lastOp' # lastOp /\ lastOp'.to \in {"node", "device"}) =>
            /\ actq # <<>>
            /\ actq' = Tail(actq)
            /\ Head(actq).kind \in {"NodeMute", "NodeVolume"}
            /\ nodes' = nodes
            /\ devices' = devices
            /\ bc' = bc
            /\ \E n \in DOMAIN nodes :
                 /\ nodes[n].state.name = Head(actq).name
                 /\ IF nodes[n].device = NoneU32
                      THEN lastOp'.to = "node" /\ lastOp'.id = n
                      ELSE /\ lastOp'.to = "device"
                           /\ lastOp'.id = nodes[n].device
                           /\ nodes[n].device \in DOMAIN devices
                           /\ nodes[n].state.route \in DOMAIN devices[nodes[n].device]]_vars
\* a command for a node on a tracked device without index for its route was
\* dropped
C33_Witness ==
  /\ scene = "devices"
  /\ pwLog = {"no index for route of device"}
  /\ lastOp = NoOp
  /\ 2 \in DOMAIN nodes
  /\ nodes[2].state.route = 1
  /\ 3 \in DOMAIN devices
  /\ actq = <<>>

\* the worker with every RouteIndex table emptied
C34_Emptied == [W EXCEPT !.devices = [d \in DOMAIN devices |-> <<>>]]
\* the parts of a worker other than the RouteIndex tables
C34_Rest(w) == <<w.nodes, DOMAIN w.devices, w.defInner, w.defState, w.bc, w.lastOp, w.log>>
\* a route event that carries route id, index and props
C34_Complete(pod) ==
  /\ pod.kind = "object"
  /\ PropsOf(pod.props, "route.device", "Int") # <<>>
  /\ PropsOf(pod.props, "route.index", "Int") # <<>>
  /\ PropsOf(pod.props, "route.props", "Object") # <<>>
\* C34: in every state in which the worker can take a step, a route event of
\* a tracked device that carries route id, index and props puts the entry
\* route -> index into the table of that device and changes no other table,
\* and an event that lacks one of them or is undecodable leaves tables,
\* nodes and channels as they are; what a route event, a node notification
\* or a command for a node without device does to the rest of the state
\* does not depend on the tables. In every step the table of a device that
\* stays tracked keeps its keys, and changes only by a complete route event
\* of that device.
C34_IndexOnlyFromCompleteRoute ==
  /\ []((scene = "devices" /\ pwThread = "running" /\ pwEvents < MaxDeviceEvents) =>
          /\ \A id \in DOMAIN devices, d \in RouteInputs :
               \A target \in RouteTargets(nodes, id, RoutePod(d)) :
                 LET pod == RoutePod(d)
                     w == UpdateParamsDevice(W, id, pod, target)
                 IN /\ IF C34_Complete(pod)
                         THEN w.devices =
                                [devices EXCEPT ![id] =
                                   MapPut(@, LastOf(PropsOf(pod.props, "route.device", "Int")).v[1],
                                             LastOf(PropsOf(pod.props, "route.index", "Int")).v[1])]
                         ELSE /\ w.devices = devices
                              /\ w.nodes = nodes
                              /\ w.bc = bc
                              /\ w.lastOp = lastOp
                    /\ C34_Rest(UpdateParamsDevice(C34_Emptied, id, pod, target)) = C34_Rest(w)
          /\ \A n \in DOMAIN nodes :
               /\ \A d \in ParamInputs :
                    /\ UpdateParamsNode(W, n, ParamPod(d)).devices = devices
                    /\ C34_Rest(UpdateParamsNode(C34_Emptied, n, ParamPod(d)))
                         = C34_Rest(UpdateParamsNode(W, n, ParamPod(d)))
               /\ \A i \in InfoInputs :
                    /\ UpdateProps(W, n, i).devices = devices
                    /\ C34_Rest(UpdateProps(C34_Emptied, n, i)) = C34_Rest(UpdateProps(W, n, i))
               /\ nodes[n].device = NoneU32 =>
                    /\ NodeTrackerSetMute(W, nodes[n].state.name, TRUE, n).devices = devices
                    /\ C34_Rest(NodeTrackerSetMute(C34_Emptied, nodes[n].state.name, TRUE, n))
                         = C34_Rest(NodeTrackerSetMute(W, nodes[n].state.name, TRUE, n)))
  /\ [][(scene = "devices") =>
          \A id \in DOMAIN devices \cap DOMAIN devices' :
            /\ DOMAIN devices[id] \subseteq DOMAIN devices'[id]
            /\ devices'[id] # devices[id] =>
                 /\ actq' = actq
                 /\ pwGraph' = pwGraph
                 /\ \E d \in RouteInputs :
                      /\ C34_Complete(RoutePod(d))
                      /\ devices'[id] =
                           MapPut(devices[id],
                                  LastOf(PropsOf(RoutePod(d).props, "route.device", "Int")).v[1],
                                  LastOf(PropsOf(RoutePod(d).props, "route.index", "Int")).v[1])]_vars
\* the table of a device holds the indices of two routes, one of them
\* the index of the later of two events for its route
C34_Witness ==
  /\ scene = "devices"
  /\ 3 \in DOMAIN devices
  /\ devices[3] = (1 :> 5) @@ (2 :> 1)
  /\ pwEvents = MaxDeviceEvents

\* the mute and volume of a tracked node
C35_Level(ns, n) == <<ns[n].state.mute, ns[n].state.volume>>
\* C35: in every state in which the worker can take a step, a parameter
\* notification on a node that has a device changes nothing at all, and a
\* route event changes the mute and volume of no node without device and
\* of no node but the one it is applied to. In every step that changes the
\* mute or volume of a node that stays tracked, a node with a device takes
\* the props of a complete route event of its tracked device for its own
\* route, and a node without device takes the object of a parameter
\* notification; no command is consumed by such a step.
C35_LevelFromOwnSource ==
  /\ []((scene = "devices" /\ pwThread = "running" /\ pwEvents < MaxDeviceEvents) =>
          /\ \A n \in DOMAIN nodes, d \in ParamInputs :
               nodes[n].device # NoneU32 => UpdateParamsNode(W, n, ParamPod(d)) = W
          /\ \A id \in DOMAIN devices, d \in RouteInputs :
               \A target \in RouteTargets(nodes, id, RoutePod(d)) :
                 LET w == UpdateParamsDevice(W, id, RoutePod(d), target)
                 IN /\ DOMAIN w.nodes = DOMAIN nodes
                    /\ \A n \in DOMAIN nodes :
                         C35_Level(w.nodes, n) # C35_Level(nodes, n) =>
                           /\ n = target
                           /\ nodes[n].device = id
                           /\ C34_Complete(RoutePod(d))
                           /\ nodes[n].state.route
                                = LastOf(PropsOf(RoutePod(d).props, "route.device", "Int")).v[1])
  /\ [][(scene = "devices") =>
          \A n \in DOMAIN nodes \cap DOMAIN nodes' :
            C35_Level(nodes', n) # C35_Level(nodes, n) =>
              /\ actq' = actq
              /\ pwGraph' = pwGraph
              /\ IF nodes[n].device # NoneU32
                   THEN /\ nodes[n].device \in DOMAIN devices
                        /\ \E d \in RouteInputs :
                             /\ C34_Complete(RoutePod(d))
                             /\ LastOf(PropsOf(RoutePod(d).props, "route.device", "Int")).v[1]
                                  = nodes[n].state.route
                             /\ nodes'[n].state =
                                  NodeStateUpdateParams(
                                    nodes[n].state,
                                    LastOf(PropsOf(RoutePod(d).props, "route.props", "Object")).o).state
                   ELSE \E d \in ParamInputs :
                          /\ ParamPod(d).kind = "object"
                          /\ nodes'[n].state =
                               NodeStateUpdateParams(nodes[n].state, ParamPod(d).props).state]_vars
\* the sink on the device was muted by a route event while the sink of the
\* same name without device kept its level
C35_Witness ==
  /\ scene = "devices"
  /\ {1, 2} \subseteq DOMAIN nodes
  /\ 3 \in DOMAIN devices
  /\ nodes[2].device = 3
  /\ nodes[2].state.mute
  /\ ~nodes[1].state.mute
  /\ nodes[1].device = NoneU32

\* the channel of the other class
C36_OtherChan(class) == IF class = "Source" THEN "sinks" ELSE "sources"
\* what a notification for node n that led the worker to w published: nothing
\* when the state of n is as before, else one list of the class of n, on the
\* channel of that class only
C36_Published(w, n) ==
  IF w.nodes[n].state = nodes[n].state
    THEN w.bc = bc
    ELSE LET own == ClassChan(nodes[n].class) IN
         /\ w.bc[C36_OtherChan(nodes[n].class)] = bc[C36_OtherChan(nodes[n].class)]
         /\ w.bc["defaults"] = bc["defaults"]
         /\ bc[own].rx > 0
         /\ w.bc[own].tail = bc[own].tail + 1
         /\ w.bc[own].buf[BcIdx(bc[own].tail)].val = NodeList(w.nodes, nodes[n].class)
\* C36: in every state in which the worker can take a step, a props
\* notification, a parameter notification or a route event for a tracked
\* node publishes nothing when it leaves name, description, route, mute
\* and volume of the node as they are, and else publishes one list, on the
\* channel of the class of the node and not on the other. A step that
\* leaves the node table as it is publishes on no node channel, and one
\* that changes the state of a node that stays tracked advances only the
\* channel of the class of that node, by one.
C36_PublishIffChanged ==
  /\ []((scene = "devices" /\ pwThread = "running" /\ pwEvents < MaxDeviceEvents) =>
          /\ \A n \in DOMAIN nodes :
               /\ \A i \in InfoInputs : C36_Published(UpdateProps(W, n, i), n)
               /\ \A d \in ParamInputs : C36_Published(UpdateParamsNode(W, n, ParamPod(d)), n)
          /\ \A id \in DOMAIN devices, d \in RouteInputs :
               \A target \in RouteTargets(nodes, id, RoutePod(d)) :
                 IF target = NoneU32
                   THEN UpdateParamsDevice(W, id, RoutePod(d), target).bc = bc
                   ELSE C36_Published(UpdateParamsDevice(W, id, RoutePod(d), target), target))
  /\ [][(scene = "devices") =>
          /\ nodes' = nodes => /\ bc'["sinks"].tail = bc["sinks"].tail
                               /\ bc'["sources"].tail = bc["sources"].tail
          /\ \A n \in DOMAIN nodes \cap DOMAIN nodes' :
               nodes'[n].state # nodes[n].state =>
                 /\ bc'[ClassChan(nodes[n].class)].tail = bc[ClassChan(nodes[n].class)].tail + 1
                 /\ bc'[C36_OtherChan(nodes[n].class)].tail
                      = bc[C36_OtherChan(nodes[n].class)].tail]_vars
\* the sink without device was announced and renamed, and two further
\* steps of the worker left it as it was: two lists on the channel of the
\* sinks (the one of its announcement and the one of the new name), none on
\* the channel of the sources
C36_Witness ==
  /\ scene = "devices"
  /\ DOMAIN nodes = {1}
  /\ nodes[1].state.name = "b"
  /\ pwEvents = MaxDeviceEvents
  /\ pwGraph = {1}
  /\ bc["sinks"].tail = 2
  /\ bc["sources"].tail = 0

\* C37: in every state of the running worker, detach(id) clears the
\* attached metadata object when id is the id it was attached with and
\* changes nothing for any other id, and in no case touches the
\* DefaultState or a channel; while no metadata object is attached,
\* set_default_sink and set_default_source send no operation and log, and
\* trigger_update publishes the retained DefaultState when the channel has
\* a receiver. In every step the metadata object goes only when its own id
\* leaves the graph, the DefaultState stays when it goes, and an operation is
\* sent to the metadata object only while it is attached.
C37_DetachByIdKeepsState ==
  /\ []((scene = "audio" /\ pwThread = "running") =>
          /\ \A id \in ObjIds :
               LET w == DefaultDetach(W, id)
               IN /\ w.defInner = (IF id = defInner THEN NoneU32 ELSE defInner)
                  /\ w.defState = defState
                  /\ w.bc = bc
                  /\ w.lastOp = lastOp
          /\ defInner = NoneU32 =>
               /\ \A k \in {"DefaultSink", "DefaultSource"}, name \in {"a", "b"} :
                    LET w == ThreadAction(W, Cmd(k, name, <<>>, FALSE), NoneU32)
                    IN /\ w.lastOp = lastOp
                       /\ w.log # {}
                       /\ w.defState = defState
                       /\ w.bc = bc
               /\ LET w == DefaultTriggerUpdate(W)
                  IN /\ w.defState = defState
                     /\ bc["defaults"].rx > 0 =>
                          /\ w.bc["defaults"].tail = bc["defaults"].tail + 1
                          /\ w.bc["defaults"].buf[BcIdx(bc["defaults"].tail)].val = defState)
  /\ [][(scene = "audio") =>
          /\ (defInner # NoneU32 /\ defInner' # defInner) =>
               /\ defInner' = NoneU32
               /\ defInner \in pwGraph
               /\ pwGraph' = pwGraph \ {defInner}
               /\ defState' = defState
               /\ bc'["defaults"] = bc["defaults"]
          /\ (lastOp' # lastOp /\ lastOp'.to = "metadata") =>
               /\ defInner # NoneU32
               /\ lastOp'.id = defInner]_vars
\* the metadata object was attached, reported a default sink and left the
\* graph: the state it reported is retained
C37_Witness ==
  /\ scene = "audio"
  /\ pwThread = "running"
  /\ defInner = NoneU32
  /\ 4 \notin pwGraph
  /\ defState.sink = "a"
  /\ bc["defaults"].tail = 1
  /\ bc["defaults"].rx > 0

\* C38: whenever the active connections task is in its loop, at the send or
\* at the select, the trackers table and the states table have the same
\* keys, every state is stored under its own path, and every tracker scans
\* the state of its own path
C38_TablesAgree ==
  (scene \in ConnectionScenes /\ nmPc \in {"send", "select"}) =>
    /\ DOMAIN trackers = DOMAIN states
    /\ \A p \in DOMAIN states : states[p].path = p
    /\ \A p \in DOMAIN trackers : trackers[p].scan.path = p
\* in the loop, after a change that removed one connection, kept one whose
\* state has been updated by a member event, and could not bind a third
C38_Witness ==
  /\ scene = "reconcile"
  /\ nmPc = "select"
  /\ nmOp.what = "reconcile"
  /\ nmOp.unbinds = {"/ac/1"}
  /\ nmOp.failed = {"/ac/3"}
  /\ DOMAIN trackers = {"/ac/2"}
  /\ DOMAIN states = {"/ac/2"}
  /\ states["/ac/2"].state = "Activated"

\* C39: the active connections task comes back from its select to the send
\* at the top of its loop only by a step that has taken a change of the set
\* of connections or an event of a tracked connection; and a task that has
\* tracked nothing since its enumeration, and has taken no change, has
\* published its initial snapshot and no other
C39_PublishOnlyAfterEvent ==
  /\ []((/\ scene \in ConnectionScenes
          /\ nmOp.what = "enumerate"
          /\ nmOp.failed = nmOp.binds) => msent <= 1)
  /\ [][(scene \in ConnectionScenes /\ nmPc = "select" /\ nmPc' = "send") =>
          (changeQ' # changeQ \/ trackers' # trackers)]_vars
\* the remainder of C39: while a connection is tracked the task comes back
\* to the send only by a change or a member event, and a step that takes
\* neither publishes nothing
C39_EventBeforePublishWhenTracked ==
  [][(scene \in ConnectionScenes) =>
       /\ (nmPc = "select" /\ nmPc' = "send" /\ DOMAIN trackers # {}) =>
            \/ changeQ # <<>> /\ changeQ' = Tail(changeQ)
            \/ /\ DOMAIN trackers' = DOMAIN trackers
               /\ \E p \in DOMAIN trackers : trackers'[p].ev # trackers[p].ev
       /\ msent' # msent => (nmPc = "send" /\ nmPc' = "select" /\ msent' = msent + 1)]_vars

\* C40: whatever messages the network module has received, when its
\* primary_path is Some(p) its primary is the first connection with path p
\* of the active list it holds (the list received last), or None when the
\* list has none, and when its primary_path is None its primary is None
C40_PrimaryFollowsActive ==
  scene = "module" =>
    IF netModule.primary_path # NoStr
      THEN netModule.primary = IterFind(netModule.active, netModule.primary_path)
      ELSE netModule.primary = NoneConnection
\* the remainder of C40: primary is None while primary_path is None; a
\* primary is a connection of the path primary_path; and primary is None
\* with a primary_path only while the active list has no connection of
\* that path
C40_PrimaryOfPath ==
  scene = "module" =>
    /\ netModule.primary_path = NoStr => netModule.primary = NoneConnection
    /\ netModule.primary # NoneConnection =>
         /\ netModule.primary.path = netModule.primary_path
         /\ netModule.primary \in ModuleConnections
    /\ (netModule.primary = NoneConnection /\ netModule.primary_path # NoStr) =>
         \A i \in DOMAIN netModule.active :
           netModule.active[i].path # netModule.primary_path

====
